---- MODULE Spec2Model ----
(***************************************************************************)
(* Discrete-event engine (simulator/mod.rs, simulator/handlers.rs) and     *)
(* response-time analysis (simulator/validation.rs) of the dual-           *)
(* criticality fixed-priority scheduler simulator.                         *)
(*                                                                         *)
(* A task reference (Rc<RefCell<SimulatorTask>>) is the task's index in    *)
(* the engine's task vector; a SimulatorTask, its Task tag and its         *)
(* TaskProps are one record.  An attached agent is in placebo mode: its    *)
(* activate hook proposes no budget mutation (the mutations are modelled   *)
(* apart); of the agent the engine keeps the number of activations and the  *)
(* events it was notified of.                                              *)
(* overflow_checks tells whether the build panics on integer overflow (a   *)
(* debug build) or wraps (a release build).                                *)
(***************************************************************************)
EXTENDS Integers, Sequences, FiniteSets, Bags, TLC

VARIABLES tasks, jobs, running_job, ready_jobs_queue, event_queue,
          event_history, last_context_switch, now, mode, running_history,
          random_execution_time, duration, pc, within_budget,
          agent, agent_dispatches, overflow_checks,
          an_tasks, an_task, an_mode, an_result, an_pc,
          an_cache, an_approximate, an_previous

simvars == <<tasks, jobs, running_job, ready_jobs_queue, event_queue,
             event_history, last_context_switch, now, mode, running_history,
             random_execution_time, duration, pc, within_budget,
             agent, agent_dispatches, overflow_checks>>
anvars == <<an_tasks, an_task, an_mode, an_result, an_pc,
            an_cache, an_approximate, an_previous>>
vars == <<simvars, anvars>>

(***************************************************************************)
(* Bounds of the explored inputs.                                          *)
(***************************************************************************)
GenWcetL == 2
MaxExec == 3
MaxOffset == 1
GenPeriod == 4
Horizon == 6
AnMaxPeriod == 3
AnMaxWcet == 2
AgentHorizon == 1002

(***************************************************************************)
(* Program constants and value types.                                      *)
(***************************************************************************)
MAX_TASKS_SIZE == 1000
MaxIterations == 100
\* duration_to_time_unit of the 1 us budget and the 10 us period of the agent's
\* task: round(1e-6 * 1e8) and round(1e-5 * 1e8).
AGENT_WCET_H == 100
AGENT_PERIOD == 1000

None == 0
NoPriority == -1

Max(a, b) == IF a > b THEN a ELSE b

SeqSum(s) ==
    LET f[i \in 0..Len(s)] == IF i = 0 THEN 0 ELSE f[i - 1] + s[i]
    IN f[Len(s)]

\* SimulatorTask::new / new_with_custom_priority: next_arrival starts at offset.
SimulatorTask(kind, id, wcet_l, wcet_h, offset, period, custom_priority, acet, bcet) ==
    [kind |-> kind, id |-> id, wcet_l |-> wcet_l, wcet_h |-> wcet_h,
     offset |-> offset, period |-> period, custom_priority |-> custom_priority,
     acet |-> acet, bcet |-> bcet, next_arrival |-> offset]

new_with_custom_priority(kind, id, wcet_l, wcet_h, offset, period, priority, acet) ==
    SimulatorTask(kind, id, wcet_l, wcet_h, offset, period, priority, acet, acet)

\* TaskProps::wcet_in_mode
wcet_in_mode(t, m) == IF m = "LMode" THEN t.wcet_l ELSE t.wcet_h

(***************************************************************************)
(* Events.                                                                 *)
(***************************************************************************)
StartEvent(task, time) ==
    [type |-> "Start", task |-> task, time |-> time, reason |-> "NoReason", mode |-> "NoMode"]
EndEvent(task, time, reason) ==
    [type |-> "End", task |-> task, time |-> time, reason |-> reason, mode |-> "NoMode"]
TaskKillEvent(task, time) ==
    [type |-> "TaskKill", task |-> task, time |-> time, reason |-> "NoReason", mode |-> "NoMode"]
ModeChangeEvent(m, time) ==
    [type |-> "ModeChange", task |-> None, time |-> time, reason |-> "NoReason", mode |-> m]

\* u64::cmp
CmpInt(a, b) == IF a < b THEN "Less" ELSE IF a > b THEN "Greater" ELSE "Equal"
Reverse(o) == IF o = "Less" THEN "Greater" ELSE IF o = "Greater" THEN "Less" ELSE "Equal"

\* A mutant of the event order: Start wins a tie in time against End.
EventCmpStartFirst(e1, e2, ts) ==
    CASE e1.type = "Start" /\ e2.type = "End" ->
            IF e1.time <= e2.time THEN "Greater" ELSE "Less"
      [] e1.type = "End" /\ e2.type = "Start" ->
            IF e1.time >= e2.time THEN "Less" ELSE "Greater"
      [] (e1.type = "Start" /\ e2.type = "Start") \/ (e1.type = "End" /\ e2.type = "End") ->
            IF e1.time < e2.time THEN "Greater"
            ELSE IF e1.time > e2.time THEN "Less"
            ELSE Reverse(CmpInt(ts[e1.task].id, ts[e2.task].id))
      [] OTHER -> "Equal"

\* A mutant of the event order: events of one kind and one instant are
\* not told apart by the ids of their tasks.
EventCmpNoTieBreak(e1, e2, ts) ==
    CASE e1.type = "Start" /\ e2.type = "End" ->
            IF e1.time < e2.time THEN "Greater" ELSE "Less"
      [] e1.type = "End" /\ e2.type = "Start" ->
            IF e1.time > e2.time THEN "Less" ELSE "Greater"
      [] (e1.type = "Start" /\ e2.type = "Start") \/ (e1.type = "End" /\ e2.type = "End") ->
            IF e1.time < e2.time THEN "Greater"
            ELSE IF e1.time > e2.time THEN "Less"
            ELSE "Equal"
      [] OTHER -> "Equal"

\* impl Ord for SimulatorEvent (the greatest event is popped first).
EventCmp(e1, e2, ts) ==
    CASE e1.type = "Start" /\ e2.type = "End" ->
            IF e1.time < e2.time THEN "Greater" ELSE "Less"
      [] e1.type = "End" /\ e2.type = "Start" ->
            IF e1.time > e2.time THEN "Less" ELSE "Greater"
      [] (e1.type = "Start" /\ e2.type = "Start") \/ (e1.type = "End" /\ e2.type = "End") ->
            IF e1.time < e2.time THEN "Greater"
            ELSE IF e1.time > e2.time THEN "Less"
            ELSE Reverse(CmpInt(ts[e1.task].id, ts[e2.task].id))
      [] OTHER -> "Equal"

\* impl Ord for SimulatorJob (the greatest job is popped first).
JobCmp(j1, j2, ts) == Reverse(CmpInt(ts[j1].id, ts[j2].id))

\* BinaryHeap::push, BinaryHeap::retain, BinaryHeap::pop on a bag.
HeapPush(heap, x) == heap (+) SetToBag({x})
HeapRemove(heap, x) == heap (-) SetToBag({x})
HeapRetain(heap, Keep(_)) == [x \in {y \in DOMAIN heap : Keep(y)} |-> heap[x]]
HeapIsEmpty(heap) == DOMAIN heap = {}
\* The elements pop may return: those no other element is greater than.
EventQueueTop(heap, ts) ==
    {e \in DOMAIN heap : \A o \in DOMAIN heap : EventCmp(e, o, ts) # "Less"}
ReadyQueueTop(heap, ts) ==
    {j \in DOMAIN heap : \A o \in DOMAIN heap : JobCmp(j, o, ts) # "Less"}

(***************************************************************************)
(* Simulator::new: the task id is rewritten to fold in the priority.       *)
(***************************************************************************)
EncodeId(t) ==
    IF t.custom_priority # NoPriority
    THEN t.custom_priority * MAX_TASKS_SIZE + MAX_TASKS_SIZE + t.id
    ELSE t.id + t.period * MAX_TASKS_SIZE + MAX_TASKS_SIZE

\* SimulatorJob::real_id.  A difference below zero stands for the u64 it
\* wraps to, 2^64 more, in a build without overflow checks.
real_id(t) ==
    IF t.custom_priority # NoPriority
    THEN t.id - t.custom_priority * MAX_TASKS_SIZE - MAX_TASKS_SIZE
    ELSE t.id - t.period * MAX_TASKS_SIZE - MAX_TASKS_SIZE

SimulatorNew(input) == [i \in DOMAIN input |-> [input[i] EXCEPT !.id = EncodeId(input[i])]]

\* self.jobs.get(&id) for the id of task: the jobs map is keyed by the encoded
\* id, and init_event_queue inserts the jobs in the order of the tasks, so the
\* job of the last task of that id is the one the map holds.
jobs_get(ts, task) ==
    CHOOSE j \in DOMAIN ts :
        /\ ts[j].id = ts[task].id
        /\ \A i \in DOMAIN ts : ts[i].id = ts[task].id => i <= j

\* The engine state the handlers work on.
Sim == [tasks |-> tasks, jobs |-> jobs, running_job |-> running_job,
        ready_jobs_queue |-> ready_jobs_queue, event_queue |-> event_queue,
        event_history |-> event_history, last_context_switch |-> last_context_switch,
        now |-> now, mode |-> mode, agent |-> agent,
        agent_dispatches |-> agent_dispatches]

\* A mutant: the event is logged and the agent is not told.
push_event_unnotified(s, event) == [s EXCEPT !.event_history = Append(@, event)]

\* Simulator::push_event: the event is logged and, with an agent attached, a
\* copy of it is passed to the agent's push_event (agent.notified is the
\* sequence of these calls; the agent's own buffer is not modelled).
push_event(s, event) ==
    [s EXCEPT !.event_history = Append(@, event),
              !.agent.notified = IF s.agent.attached THEN Append(@, event) ELSE @]

(***************************************************************************)
(* simulator/handlers.rs                                                   *)
(***************************************************************************)
\* A mutant: the low-mode budget is enforced in HMode too.
TerminationInAnyMode(s, job) ==
    IF s.jobs[job].exec_time > s.tasks[job].wcet_l
    THEN EndEvent(job, s.now + s.tasks[job].wcet_l - s.jobs[job].run_time, "BudgetExceedance")
    ELSE EndEvent(job, s.now + s.jobs[job].exec_time - s.jobs[job].run_time, "JobCompletion")

\* A mutant: the low-mode budget is not enforced.
TerminationNoBudget(s, job) ==
    EndEvent(job, s.now + s.jobs[job].exec_time - s.jobs[job].run_time, "JobCompletion")

\* A mutant: a job that needs exactly its low-mode budget is cut off.
TerminationStrict(s, job) ==
    IF s.mode = "LMode" /\ s.jobs[job].exec_time >= s.tasks[job].wcet_l
    THEN EndEvent(job, s.now + s.tasks[job].wcet_l - s.jobs[job].run_time, "BudgetExceedance")
    ELSE EndEvent(job, s.now + s.jobs[job].exec_time - s.jobs[job].run_time, "JobCompletion")

\* The termination event schedule_termination_event computes.
Termination(s, job) ==
    IF s.mode = "LMode" /\ s.jobs[job].exec_time > s.tasks[job].wcet_l
    THEN EndEvent(job, s.now + s.tasks[job].wcet_l - s.jobs[job].run_time, "BudgetExceedance")
    ELSE EndEvent(job, s.now + s.jobs[job].exec_time - s.jobs[job].run_time, "JobCompletion")

schedule_termination_event(s, job) ==
    LET event == Termination(s, job)
    IN [s EXCEPT !.jobs[job].event = event,
                 !.event_queue = HeapPush(@, event)]

\* A mutant: the termination event of the preempted job is not cancelled.
context_switch_no_cancel(s, job) ==
    LET running == s.running_job
        s1 == IF running # None
              THEN [s EXCEPT
                      !.jobs[running].run_time = @ + s.now - s.last_context_switch,
                      !.ready_jobs_queue = HeapPush(@, running)]
              ELSE s
        s2 == schedule_termination_event(s1, job)
    IN [s2 EXCEPT !.running_job = job, !.last_context_switch = s.now,
                  !.agent_dispatches = IF s.jobs[job].is_agent THEN @ + 1 ELSE @]

\* A mutant: the time the preempted job has run is not accounted.
context_switch_no_run_time(s, job) ==
    LET running == s.running_job
        s1 == IF running # None
              THEN [s EXCEPT
                      !.event_queue =
                          HeapRetain(@, LAMBDA e : s.tasks[e.task].id # s.tasks[running].id),
                      !.ready_jobs_queue = HeapPush(@, running)]
              ELSE s
        s2 == schedule_termination_event(s1, job)
    IN [s2 EXCEPT !.running_job = job, !.last_context_switch = s.now,
                  !.agent_dispatches = IF s.jobs[job].is_agent THEN @ + 1 ELSE @]

\* agent_dispatches counts the context switches to the agent's job (a history
\* variable).
context_switch(s, job) ==
    LET running == s.running_job
        s1 == IF running # None
              THEN [s EXCEPT
                      !.event_queue =
                          HeapRetain(@, LAMBDA e : s.tasks[e.task].id # s.tasks[running].id),
                      !.jobs[running].run_time = @ + s.now - s.last_context_switch,
                      !.ready_jobs_queue = HeapPush(@, running)]
              ELSE s
        s2 == schedule_termination_event(s1, job)
    IN [s2 EXCEPT !.running_job = job, !.last_context_switch = s.now,
                  !.agent_dispatches = IF s.jobs[job].is_agent THEN @ + 1 ELSE @]

\* run_job: the agent's activate hook, then the context switch.  In placebo
\* mode the action is None, which apply leaves the tasks unchanged on.
run_job(s, job) ==
    IF s.jobs[job].is_agent /\ s.agent.attached
    THEN context_switch([s EXCEPT !.agent.activations = @ + 1], job)
    ELSE context_switch(s, job)

\* A mutant: the L-tasks are not admitted again.
LTaskStartsNone(s) == EmptyBag

\* The Start events change_mode pushes for the L-tasks on the way back to LMode.
LTaskStarts(s) ==
    LET f[i \in 0..Len(s.tasks)] ==
          IF i = 0 THEN EmptyBag
          ELSE IF s.tasks[i].kind = "L"
               THEN HeapPush(f[i - 1], StartEvent(i, Max(s.now, s.tasks[i].next_arrival)))
               ELSE f[i - 1]
    IN f[Len(s.tasks)]

\* A mutant: entering HMode leaves the L-jobs in the ready queue.
change_mode_keep_ready(s, to_mode) ==
    LET s1 == push_event([s EXCEPT !.mode = to_mode], ModeChangeEvent(to_mode, s.now))
    IN IF to_mode = "LMode"
       THEN [s1 EXCEPT !.event_queue = @ (+) LTaskStarts(s1)]
       ELSE [s1 EXCEPT
               !.event_queue = HeapRetain(@, LAMBDA e : s.tasks[e.task].kind = "H")]

change_mode(s, to_mode) ==
    LET s1 == push_event([s EXCEPT !.mode = to_mode], ModeChangeEvent(to_mode, s.now))
    IN IF to_mode = "LMode"
       THEN [s1 EXCEPT !.event_queue = @ (+) LTaskStarts(s1)]
       ELSE [s1 EXCEPT
               !.event_queue = HeapRetain(@, LAMBDA e : s.tasks[e.task].kind = "H"),
               !.ready_jobs_queue = HeapRetain(@, LAMBDA j : s.tasks[j].kind = "H")]

\* A mutant: the new job preempts a running job of equal or lower priority id.
PreemptsAlways(s, task) == TRUE

\* The test of handle_start_event for a context switch.
Preempts(s, task) ==
    s.running_job = None \/ s.tasks[task].id < s.tasks[s.running_job].id

handle_start_event(s, task, time, next_exec_time) ==
    LET s1 == push_event(s, StartEvent(task, time))
        job == jobs_get(s.tasks, task)
        s2 == [s1 EXCEPT !.tasks[task].next_arrival = @ + s.tasks[task].period,
                         !.jobs[job].exec_time = next_exec_time,
                         !.jobs[job].run_time = 0]
    IN IF Preempts(s2, job)
       THEN context_switch(s2, job)
       ELSE [s2 EXCEPT !.ready_jobs_queue = HeapPush(@, job)]

\* A mutant: a budget exceedance of an H-task is handled like one of an L-task.
BudgetExceedanceKillsAll(s, task) == push_event(s, TaskKillEvent(task, s.now))

\* Budget exceedance handling of handle_end_event.
BudgetExceedance(s, task) ==
    IF s.tasks[jobs_get(s.tasks, task)].kind = "L"
    THEN push_event(s, TaskKillEvent(task, s.now))
    ELSE change_mode(s, "HMode")

\* A mutant: the engine stays in HMode when it goes idle.
DispatchNextStayH(s) ==
    IF HeapIsEmpty(s.ready_jobs_queue)
    THEN s
    ELSE LET job == CHOOSE j \in ReadyQueueTop(s.ready_jobs_queue, s.tasks) : TRUE
         IN run_job([s EXCEPT !.ready_jobs_queue = HeapRemove(@, job)], job)

\* The end of handle_end_event: idle handling or dispatch of the next ready job.
DispatchNext(s) ==
    IF HeapIsEmpty(s.ready_jobs_queue)
    THEN IF s.mode = "HMode" THEN change_mode(s, "LMode") ELSE s
    ELSE LET job == CHOOSE j \in ReadyQueueTop(s.ready_jobs_queue, s.tasks) : TRUE
         IN run_job([s EXCEPT !.ready_jobs_queue = HeapRemove(@, job)], job)

\* Variant releasing the next job at once, whatever the next arrival is.
NextStartTimeNow(s, task) == s.now

\* Variant releasing the next job at its next arrival, also when that instant
\* has passed.
NextStartTimeArrival(s, task) == s.tasks[task].next_arrival

\* handlers.rs:98: the next job arrives at its next arrival, or now if that
\* instant has passed.
NextStartTime(s, task) == Max(s.now, s.tasks[task].next_arrival)

handle_end_event(s, task, time, reason) ==
    LET s1 == push_event(s, EndEvent(task, time, reason))
        job == jobs_get(s.tasks, task)
        new_start_event == StartEvent(job, NextStartTime(s, task))
        s2 == [s1 EXCEPT !.event_queue = HeapPush(@, new_start_event),
                         !.jobs[job].event = new_start_event,
                         !.jobs[job].run_time = @ + s.now - s.last_context_switch,
                         !.running_job = None]
        s3 == IF reason = "BudgetExceedance" THEN BudgetExceedance(s2, task) ELSE s2
    IN DispatchNext(s3)

(***************************************************************************)
(* Inputs: the task sets of the repository's engine tests and a bounded    *)
(* family of task sets with custom priorities 1..n and a common period.    *)
(***************************************************************************)
\* tests::same_criticality_1
ScenarioA ==
    << new_with_custom_priority("L", 1, 1, 1, 1, 4, 1, 1),
       new_with_custom_priority("L", 2, 2, 2, 0, 4, 2, 2) >>
\* tests::same_criticality_2
ScenarioSame2 ==
    << new_with_custom_priority("L", 1, 2, 2, 1, 5, 2, 2),
       new_with_custom_priority("L", 2, 2, 2, 0, 5, 3, 2),
       new_with_custom_priority("L", 3, 1, 1, 1, 5, 1, 1) >>
\* tests::different_criticality_1
ScenarioDiff1 ==
    << new_with_custom_priority("H", 1, 1, 1, 1, 3, 1, 1),
       new_with_custom_priority("L", 2, 2, 2, 0, 3, 2, 2) >>
\* tests::different_criticality_task_kill
ScenarioB ==
    << new_with_custom_priority("L", 1, 2, 0, 0, 5, 1, 3),
       new_with_custom_priority("H", 2, 2, 3, 2, 5, 2, 2) >>
\* tests::different_criticality_mode_change
ScenarioC ==
    << new_with_custom_priority("H", 1, 2, 3, 0, 5, 1, 3),
       new_with_custom_priority("L", 2, 2, 3, 2, 5, 2, 2) >>

TestRuns ==
    { <<ScenarioA, 10, FALSE>>, <<ScenarioSame2, 10, FALSE>>, <<ScenarioDiff1, 8, FALSE>>,
      <<ScenarioB, 12, FALSE>>, <<ScenarioC, 12, FALSE>> }

\* Task i of a generated set has id i and custom priority i; its execution
\* time is below, at or above its low-mode budget.
GenTask(i) ==
    { new_with_custom_priority(k, i, GenWcetL, MaxExec, o, GenPeriod, i, e) :
        k \in {"L", "H"}, o \in 0..MaxOffset, e \in 1..MaxExec }

\* The generated task sets have one, two or three tasks.
GenTaskSets ==
    { <<a>> : a \in GenTask(1) }
      \cup { <<a, b>> : a \in GenTask(1), b \in GenTask(2) }
      \cup { <<a, b, c>> : a \in GenTask(1), b \in GenTask(2), c \in GenTask(3) }

GenRuns == { <<ts, Horizon, FALSE>> : ts \in GenTaskSets }

\* Task sets with rate-monotonic priorities whose execution times are sampled
\* (SimulatorTask::new with bcet < acet < wcet_h, as the sampler requires).
SampledTask(i) ==
    { SimulatorTask(k, i, GenWcetL, GenWcetL + 1, 0, GenPeriod, NoPriority, GenWcetL, GenWcetL - 1) :
        k \in {"L", "H"} }

SampledRuns ==
    { << <<a, b>>, Horizon, TRUE >> : a \in SampledTask(1), b \in SampledTask(2) }

(***************************************************************************)
(* The engine as a state machine.                                          *)
(***************************************************************************)
\* Simulator.agent: None, or an agent in placebo mode not yet activated.
NoAgent == [attached |-> FALSE, activations |-> 0, notified |-> << >>]
PlaceboAgent == [attached |-> TRUE, activations |-> 0, notified |-> << >>]

\* Simulator::new(tasks, random_execution_time, agent), in a build with or
\* without overflow checks, about to run fire(duration).
SimNew(run, a, checks) ==
    /\ tasks = SimulatorNew(run[1])
    /\ duration = run[2]
    /\ random_execution_time = run[3]
    /\ agent = a
    /\ agent_dispatches = 0
    /\ overflow_checks = checks
    /\ jobs = << >>
    /\ running_job = None
    /\ ready_jobs_queue = EmptyBag
    /\ event_queue = EmptyBag
    /\ event_history = << >>
    /\ last_context_switch = 0
    /\ now = 0
    /\ mode = "LMode"
    /\ running_history = << >>
    /\ pc = "new"
    /\ within_budget = TRUE

\* Without an agent no id underflows: the build makes no difference.
SimInit == \E run \in TestRuns \cup GenRuns \cup SampledRuns : SimNew(run, NoAgent, FALSE)

AnIdle ==
    /\ an_tasks = << >>
    /\ an_task = None
    /\ an_mode = "LMode"
    /\ an_result = None
    /\ an_pc = "idle"
    /\ an_cache = << >>
    /\ an_approximate = FALSE
    /\ an_previous = None

Init == SimInit /\ AnIdle

\* The task init_event_queue makes for the agent of a simulator of n tasks:
\* its id is n + 1 as it stands (Simulator::new has run before).
AgentTask(n) ==
    new_with_custom_priority("H", n + 1, 0, AGENT_WCET_H, 0, AGENT_PERIOD, n + 1, n + 1)

\* Simulator::init_event_queue: with an agent attached its task is pushed
\* after the others, with a job marked is_agent.
init_event_queue(ts, a) ==
    LET all == IF a.attached THEN Append(ts, AgentTask(Len(ts))) ELSE ts
    IN [tasks |-> all,
        event_queue |->
           LET f[i \in 0..Len(all)] ==
                 IF i = 0 THEN EmptyBag
                 ELSE HeapPush(f[i - 1], StartEvent(i, all[i].offset))
           IN f[Len(all)],
        jobs |-> [i \in DOMAIN all |->
                    [exec_time |-> 0, run_time |-> 0,
                     event |-> StartEvent(i, all[i].offset),
                     is_agent |-> (i > Len(ts))]]]

\* fire: entry, up to the dispatch loop.
FireBegin ==
    /\ pc = "new"
    /\ LET q == init_event_queue(tasks, agent)
       IN /\ tasks' = q.tasks
          /\ event_queue' = q.event_queue
          /\ jobs' = q.jobs
    /\ pc' = "fire"
    /\ UNCHANGED <<running_job, ready_jobs_queue, event_history,
                   last_context_switch, now, mode, running_history,
                   random_execution_time, duration, within_budget,
                   agent, agent_dispatches, overflow_checks>>
    /\ UNCHANGED anvars

\* The ticks fire appends to the running history before it handles an event.
Ticks(s, time) ==
    [k \in 1..Max(time - s.now, 0) |->
        IF s.running_job = None THEN None ELSE real_id(s.tasks[s.running_job])]

\* Task::sample_execution_time truncates a sample of [bcet, wcet_h]; with
\* random_execution_time off the job runs for acet.
ExecTimes(t) == IF random_execution_time THEN t.bcet..t.wcet_h ELSE {t.acet}

\* The subtractions of real_id leave the range of u64.
Underflows(t) == real_id(t) < 0

\* fire evaluates real_id of every ready job when it prints the ready queue,
\* and of the running job once for each tick before the event.
DispatchUnderflows(event) ==
    \/ \E j \in DOMAIN ready_jobs_queue : Underflows(tasks[j])
    \/ running_job # None /\ event.time > now /\ Underflows(tasks[running_job])

\* An underflow in a build with overflow checks: the thread panics.
Panic ==
    /\ pc' = "panic"
    /\ UNCHANGED <<tasks, jobs, running_job, ready_jobs_queue, event_queue,
                   event_history, last_context_switch, now, mode, running_history,
                   random_execution_time, duration, within_budget,
                   agent, agent_dispatches, overflow_checks>>
    /\ UNCHANGED anvars

Commit(s, event) ==
    /\ tasks' = s.tasks
    /\ jobs' = s.jobs
    /\ running_job' = s.running_job
    /\ ready_jobs_queue' = s.ready_jobs_queue
    /\ event_queue' = s.event_queue
    /\ event_history' = s.event_history
    /\ last_context_switch' = s.last_context_switch
    /\ mode' = s.mode
    /\ now' = s.now
    /\ agent' = s.agent
    /\ agent_dispatches' = s.agent_dispatches
    /\ running_history' = running_history \o Ticks(Sim, event.time)
    /\ UNCHANGED <<random_execution_time, duration, pc, overflow_checks>>
    /\ UNCHANGED anvars

\* One turn of the dispatch loop of fire that pops a Start event.
FireStart ==
    /\ pc = "fire"
    /\ now < duration
    /\ \E event \in EventQueueTop(event_queue, tasks) :
         /\ event.type = "Start"
         /\ IF overflow_checks /\ DispatchUnderflows(event)
            THEN Panic
            ELSE \E next_exec_time \in ExecTimes(tasks[event.task]) :
              LET popped == [Sim EXCEPT !.event_queue = HeapRemove(@, event),
                                        !.now = event.time]
              IN /\ Commit(handle_start_event(popped, event.task, event.time, next_exec_time),
                           event)
                 /\ within_budget' = (within_budget
                                        /\ next_exec_time <= tasks[event.task].wcet_l)

\* One turn of the dispatch loop of fire that pops an End event.
FireEnd ==
    /\ pc = "fire"
    /\ now < duration
    /\ \E event \in EventQueueTop(event_queue, tasks) :
         /\ event.type = "End"
         /\ IF overflow_checks /\ DispatchUnderflows(event)
            THEN Panic
            ELSE LET popped == [Sim EXCEPT !.event_queue = HeapRemove(@, event),
                                           !.now = event.time]
                 IN /\ Commit(handle_end_event(popped, event.task, event.time, event.reason),
                              event)
                    /\ UNCHANGED within_budget

\* Simulator::change_back_task_ids
change_back_task_ids(ts) ==
    [i \in DOMAIN ts |-> [ts[i] EXCEPT !.id = real_id(ts[jobs_get(ts, i)])]]

\* fire: the dispatch loop is over; the ids are restored and the histories
\* returned.  A real_id that underflows panics in a build with overflow checks
\* and wraps otherwise.
FireReturn ==
    /\ pc = "fire"
    /\ now >= duration
    /\ IF overflow_checks /\ \E i \in DOMAIN tasks : Underflows(tasks[jobs_get(tasks, i)])
       THEN Panic
       ELSE /\ tasks' = change_back_task_ids(tasks)
            /\ pc' = "done"
            /\ UNCHANGED <<jobs, running_job, ready_jobs_queue, event_queue,
                           event_history, last_context_switch, now, mode,
                           running_history, random_execution_time, duration,
                           within_budget, agent, agent_dispatches, overflow_checks>>
            /\ UNCHANGED anvars

Next == FireBegin \/ FireStart \/ FireEnd \/ FireReturn

Spec == Init /\ [][Next]_vars

(***************************************************************************)
(* Properties of the engine.                                               *)
(***************************************************************************)
Idx(seq) == DOMAIN seq
Last(seq) == seq[Len(seq)]
LogOnly(seq) == SelectSeq(seq, LAMBDA e : e.type \in {"TaskKill", "ModeChange"})
KillTimes(seq, task) ==
    LET kills == SelectSeq(seq, LAMBDA e : e.type = "TaskKill" /\ e.task = task)
    IN [k \in Idx(kills) |-> kills[k].time]
ModeChanges(seq) ==
    LET changes == SelectSeq(seq, LAMBDA e : e.type = "ModeChange")
    IN [k \in Idx(changes) |-> <<changes[k].mode, changes[k].time>>]

\* fire(d) has returned for the task set input (ids restored by then).
Returned(input, d) ==
    /\ pc = "done"
    /\ duration = d
    /\ ~random_execution_time
    /\ tasks = [i \in DOMAIN input |-> [input[i] EXCEPT !.next_arrival = tasks[i].next_arrival]]
    /\ DOMAIN tasks = DOMAIN input

\* C6: Scenario A (two L-tasks of period 4): fire(10) returns the tick history
\* [2,1,2,None,2,1,2,None,2,1] and an event history without TaskKill and
\* ModeChange events.
C6_ScenarioA ==
    Returned(ScenarioA, 10) =>
        /\ running_history = <<2, 1, 2, None, 2, 1, 2, None, 2, 1>>
        /\ LogOnly(event_history) = << >>
C6_Witness == Returned(ScenarioA, 10) /\ Len(running_history) = 10

\* C8: Scenario B (L-task 1 overruns its low budget, H-task 2 does not):
\* fire(12) records TaskKill for task 1 at 2, 7 and 12, no ModeChange, and
\* returns the tick history [1,1,2,2,None,1,1,2,2,None,1,1].
C8_ScenarioB ==
    Returned(ScenarioB, 12) =>
        /\ KillTimes(event_history, 1) = <<2, 7, 12>>
        /\ Len(LogOnly(event_history)) = 3
        /\ ModeChanges(event_history) = << >>
        /\ running_history = <<1, 1, 2, 2, None, 1, 1, 2, 2, None, 1, 1>>
C8_Witness == Returned(ScenarioB, 12) /\ Len(KillTimes(event_history, 1)) > 0

\* C9: Scenario C (H-task 1 overruns its low budget, L-task 2 does not):
\* fire(12) records exactly the mode changes HMode@2, LMode@2, HMode@7,
\* LMode@7, HMode@12, LMode@12 and no TaskKill, and the L-task runs in ticks
\* 2-3 and 7-8.
C9_ScenarioC ==
    Returned(ScenarioC, 12) =>
        /\ ModeChanges(event_history) =
              << <<"HMode", 2>>, <<"LMode", 2>>, <<"HMode", 7>>, <<"LMode", 7>>,
                 <<"HMode", 12>>, <<"LMode", 12>> >>
        /\ Len(LogOnly(event_history)) = 6
        /\ Len(running_history) >= 9
        /\ \A k \in {3, 4, 8, 9} : running_history[k] = 2
C9_Witness == Returned(ScenarioC, 12) /\ Len(ModeChanges(event_history)) > 0

Handled(seq) == SelectSeq(seq, LAMBDA e : e.type \in {"Start", "End"})
ReadyJobs == DOMAIN ready_jobs_queue
QueuedEvents == DOMAIN event_queue
IsL(task) == tasks[task].kind = "L"
IsH(task) == tasks[task].kind = "H"

\* C1: after every event handled by fire the engine is fixed-priority and
\* work-conserving: a non-empty ready queue implies a running job, the running
\* job has a strictly lower encoded id than every ready job, and it is not in
\* the ready queue itself.
C1_FixedPriority ==
    pc = "fire" =>
        /\ (ReadyJobs # {} => running_job # None)
        /\ \A j \in ReadyJobs : running_job # None => tasks[running_job].id < tasks[j].id
        /\ running_job \notin ReadyJobs
C1_Witness ==
    /\ pc = "fire"
    /\ running_job # None
    /\ Cardinality(ReadyJobs) >= 2

\* C2: an End with reason BudgetExceedance at time t is followed in the history
\* by TaskKill(task, t) and no mode change when the task is an L-task, and by
\* ModeChange(HMode, t) when it is an H-task; every TaskKill is for an L-task
\* and every ModeChange(HMode) directly follows an End(H-task, same time,
\* BudgetExceedance).
C2_BudgetExceedance ==
    \A k \in Idx(event_history) :
        LET e == event_history[k]
        IN /\ (e.type = "End" /\ e.reason = "BudgetExceedance" /\ IsL(e.task)) =>
                 /\ k < Len(event_history)
                 /\ event_history[k + 1] = TaskKillEvent(e.task, e.time)
                 /\ (k + 2 <= Len(event_history) => event_history[k + 2].type # "ModeChange")
           /\ (e.type = "End" /\ e.reason = "BudgetExceedance" /\ IsH(e.task)) =>
                 /\ k < Len(event_history)
                 /\ event_history[k + 1] = ModeChangeEvent("HMode", e.time)
           /\ e.type = "TaskKill" => IsL(e.task)
           /\ (e.type = "ModeChange" /\ e.mode = "HMode") =>
                 /\ k > 1
                 /\ event_history[k - 1].type = "End"
                 /\ IsH(event_history[k - 1].task)
                 /\ event_history[k - 1].time = e.time
                 /\ event_history[k - 1].reason = "BudgetExceedance"
C2_Witness ==
    /\ \E k \in Idx(event_history) : event_history[k].type = "TaskKill"
    /\ \E k \in Idx(event_history) :
          event_history[k].type = "ModeChange" /\ event_history[k].mode = "HMode"

\* C3: between handlers, in HMode no L-task is admitted: the running job is no
\* L-task's, the ready queue holds no L-task's job and the event queue holds no
\* Start or End event of an L-task.
C3_NoLTaskInHMode ==
    mode = "HMode" =>
        /\ running_job # None => IsH(running_job)
        /\ \A j \in ReadyJobs : IsH(j)
        /\ \A e \in QueuedEvents : IsH(e.task)
\* HMode with an L-task whose started job was evicted from the ready queue.
C3_Witness ==
    /\ mode = "HMode"
    /\ pc = "fire"
    /\ \E i \in DOMAIN tasks :
          /\ IsL(i)
          /\ LET own == SelectSeq(event_history, LAMBDA e : e.task = i)
             IN own # << >> /\ Last(own).type = "Start"

\* A step of the dispatch loop that handles an End event.
EndHandled ==
    /\ pc = "fire"
    /\ Len(event_history') > Len(event_history)
    /\ event_history'[Len(event_history) + 1].type = "End"
\* The handler of this step was in HMode at some point.
SawHMode ==
    \/ mode = "HMode"
    \/ \E k \in (Len(event_history) + 1)..Len(event_history') :
          event_history'[k] = ModeChangeEvent("HMode", now')

\* C4: the engine never idles in HMode: after every handled event HMode implies
\* a running job, and an End handled in HMode (or entering HMode) that finds
\* the ready queue empty records ModeChange(LMode) at that time and leaves the
\* engine in LMode.
C4_NoIdleInHMode ==
    /\ [](pc = "fire" /\ mode = "HMode" => running_job # None)
    /\ [][(EndHandled /\ SawHMode /\ running_job' = None) =>
             /\ mode' = "LMode"
             /\ Last(event_history') = ModeChangeEvent("LMode", now')]_vars
\* HMode lasted beyond the handler that entered it and was left on idle.
C4_Witness ==
    /\ pc = "fire"
    /\ running_job = None
    /\ Len(event_history) >= 2
    /\ Last(event_history) = ModeChangeEvent("LMode", now)
    /\ event_history[Len(event_history) - 1].type = "End"

\* Event a comes before event b in the order of the event queue: earlier time,
\* at equal time End before Start, at equal time and variant the lower encoded id.
ComesBefore(a, b) ==
    \/ a.time < b.time
    \/ a.time = b.time /\ a.type = "End" /\ b.type = "Start"
    \/ a.time = b.time /\ a.type = b.type /\ tasks[a.task].id < tasks[b.task].id

\* C5: the event popped by the dispatch loop comes before every event left in
\* the event queue: earlier time first, at equal time End before Start, at
\* equal time and variant the lower encoded id first.
C5_PopOrder ==
    [][(pc = "fire" /\ Len(event_history') > Len(event_history)) =>
          LET popped == event_history'[Len(event_history) + 1]
          IN /\ popped \in QueuedEvents
             /\ \A e \in QueuedEvents \ {popped} : ComesBefore(popped, e)]_vars
\* The queue holds an End and two Starts of one instant.
C5_Witness ==
    /\ pc = "fire"
    /\ \E a, b, c \in QueuedEvents :
          /\ a.type = "End" /\ b.type = "Start" /\ c.type = "Start"
          /\ a.time = b.time /\ b.time = c.time
          /\ b.task # c.task

\* C7: while every sampled execution time is within the low-mode budget of its
\* task, the mode is LMode, every End has reason JobCompletion and the history
\* holds no TaskKill and no ModeChange.
C7_WithinBudget ==
    within_budget =>
        /\ mode = "LMode"
        /\ \A k \in Idx(event_history) :
              event_history[k].type = "End" => event_history[k].reason = "JobCompletion"
        /\ LogOnly(event_history) = << >>
C7_Witness ==
    /\ within_budget
    /\ random_execution_time
    /\ pc = "done"
    /\ \E k \in Idx(event_history) : event_history[k].type = "End" /\ IsH(event_history[k].task)

(***************************************************************************)
(* simulator/validation.rs: response-time analysis.                        *)
(*                                                                         *)
(* response_time iterates in f32 (24 bits of mantissa, round to nearest,   *)
(* ties to even).  Every f32 value it computes is a non-negative integer,  *)
(* so a f32 value is modelled by that integer and each operation by the    *)
(* exact result rounded to the nearest f32.                                *)
(***************************************************************************)
Some(v) == [some |-> TRUE, value |-> v]
NoneOption == [some |-> FALSE, value |-> 0]

F32_MANTISSA_DIGITS == 24

RECURSIVE Pow2(_)
Pow2(k) == IF k = 0 THEN 1 ELSE 2 * Pow2(k - 1)

\* The e with 2^e <= n < 2^(e+1), for n >= 1.
RECURSIVE Exponent(_)
Exponent(n) == IF n < 2 THEN 0 ELSE 1 + Exponent(n \div 2)

\* n / d rounded to the nearest integer, ties to even.
RoundHalfEven(n, d) ==
    LET q == n \div d
        r == n % d
    IN IF 2 * r < d THEN q
       ELSE IF 2 * r > d THEN q + 1
       ELSE IF q % 2 = 0 THEN q ELSE q + 1

\* Below this every integer is a f32.
F32_EXACT_BELOW == Pow2(F32_MANTISSA_DIGITS)

\* A mutant: f32 as if it held every integer exactly.
F32Exact(n) == n

\* `n as f32`, and the rounding of an exact integer result to f32.
F32(n) ==
    IF n < F32_EXACT_BELOW
    THEN n
    ELSE LET ulp == Pow2(Exponent(n) - (F32_MANTISSA_DIGITS - 1))
         IN RoundHalfEven(n, ulp) * ulp

\* (x / y).ceil() in f32, for f32 values x >= 0 and y > 0.
F32DivCeil(x, y) ==
    IF x = 0 THEN 0
    ELSE IF x < y THEN 1
    ELSE LET e == Exponent(x \div y)
         IN IF e >= F32_MANTISSA_DIGITS - 1
            THEN LET ulp == Pow2(e - (F32_MANTISSA_DIGITS - 1))
                 IN RoundHalfEven(x, y * ulp) * ulp
            ELSE LET scale == Pow2((F32_MANTISSA_DIGITS - 1) - e)
                     mantissa == RoundHalfEven(x * scale, y)
                 IN (mantissa + scale - 1) \div scale

\* Iterator::sum::<f32>() over the sequence s
F32Sum(s) ==
    LET f[i \in 0..Len(s)] == IF i = 0 THEN 0 ELSE F32(f[i - 1] + s[i])
    IN f[Len(s)]

\* SimulatorTask::priority: the custom priority when there is one, else the
\* period (rate-monotonic).
Priority(t) == IF t.custom_priority # NoPriority THEN t.custom_priority ELSE t.period

\* A mutant: tasks of equal priority (the task itself) interfere as well.
InterferenceInclusive(task, ts, m, r) ==
    LET higher == SelectSeq(ts, LAMBDA t : Priority(t) <= Priority(task))
    IN F32Sum([i \in DOMAIN higher |->
                 F32(F32DivCeil(r, F32(higher[i].period))
                       * F32(wcet_in_mode(higher[i], m)))])

\* The interference of the higher-priority tasks within response time r.
Interference(task, ts, m, r) ==
    LET higher == SelectSeq(ts, LAMBDA t : Priority(t) < Priority(task))
    IN F32Sum([i \in DOMAIN higher |->
                 F32(F32DivCeil(r, F32(higher[i].period))
                       * F32(wcet_in_mode(higher[i], m)))])

\* The end of a turn of the loop of response_time: return or go on.
ResponseTimeTurn(st, new_response_time) ==
    IF new_response_time = st.response_time
    THEN [st EXCEPT !.result = Some(new_response_time)]
    ELSE [st EXCEPT !.response_time = new_response_time]

\* One turn of the loop of response_time, on the loop state
\* [response_time, result]: result is Some(..) once the loop has returned.
ResponseTimeIteration(task, ts, m, st) ==
    IF st.result.some
    THEN st
    ELSE ResponseTimeTurn(st, F32(F32(wcet_in_mode(task, m))
                                    + Interference(task, ts, m, st.response_time)))

\* n turns of the loop (the turns are split in halves to keep the evaluation
\* shallow; the turns run in order).
RECURSIVE ResponseTimeLoop(_, _, _, _, _)
ResponseTimeLoop(task, ts, m, st, n) ==
    IF n = 0 THEN st
    ELSE IF n = 1 THEN ResponseTimeIteration(task, ts, m, st)
    ELSE LET half == ResponseTimeLoop(task, ts, m, st, n \div 2)
         IN IF half.result.some THEN half
            ELSE ResponseTimeLoop(task, ts, m, half, n - n \div 2)

\* A mutant: the loop gives up after a single turn.
response_time_one_turn(task, ts, m) ==
    ResponseTimeLoop(task, ts, m,
                     [response_time |-> F32(wcet_in_mode(task, m)), result |-> NoneOption],
                     1).result

response_time(task, ts, m) ==
    ResponseTimeLoop(task, ts, m,
                     [response_time |-> F32(wcet_in_mode(task, m)), result |-> NoneOption],
                     MaxIterations).result

(***************************************************************************)
(* Inputs of the analysis: the task set of tests::non_feasible_in_mode_2   *)
(* and bounded families of task sets with custom priorities 1..n.          *)
(***************************************************************************)
\* TimeUnit::MAX in the tests, for the acet the analysis never reads; the largest
\* integer of the model checker stands for it.
UNUSED_TIME == 2147483647

NonFeasibleInMode2 ==
    << new_with_custom_priority("H", 1, 1, 1, 0, 8, 1, UNUSED_TIME),
       new_with_custom_priority("H", 2, 1, 1, 0, 8, 2, UNUSED_TIME),
       new_with_custom_priority("L", 3, 4, 4, 0, 10, 3, UNUSED_TIME),
       new_with_custom_priority("L", 4, 2, 2, 0, 10, 4, UNUSED_TIME),
       new_with_custom_priority("L", 5, 3, 3, 0, 10, 5, UNUSED_TIME) >>

\* A task of period 200 ms whose budgets need more than 24 bits (a second is
\* 100_000_000 time units, generator/mod.rs).
LongTask(i) ==
    new_with_custom_priority("H", i, Pow2(F32_MANTISSA_DIGITS) + 1,
                             Pow2(F32_MANTISSA_DIGITS) + 3, 0, 20000000, i, UNUSED_TIME)

AnTask(i) ==
    { new_with_custom_priority(k, i, wl, wl + d, 0, p, i, UNUSED_TIME) :
        k \in {"L", "H"}, wl \in 0..AnMaxWcet, d \in 0..1, p \in 1..AnMaxPeriod }

AnLTask(i) ==
    { new_with_custom_priority("L", i, wl, wl, 0, p, i, UNUSED_TIME) :
        wl \in 0..AnMaxWcet, p \in 1..AnMaxPeriod }

\* The tasks above the lowest priority have a utilisation of at most 1 in high
\* mode (and so in low mode, their budgets there being no larger): an iterate
\* of the recurrence exceeds the one before by a bounded amount only.
RECURSIVE Factorial(_)
Factorial(n) == IF n = 0 THEN 1 ELSE n * Factorial(n - 1)
InterferersAtMostOne(ts) ==
    LET k == Factorial(AnMaxPeriod)
    IN SeqSum([i \in 1..(Len(ts) - 1) |-> ts[i].wcet_h * (k \div ts[i].period)]) <= k

AnTaskSets ==
    { NonFeasibleInMode2, <<LongTask(1)>> }
      \cup { <<a>> : a \in AnTask(1) }
      \cup { ts \in { <<a, b>> : a \in AnTask(1), b \in AnTask(2) } :
               InterferersAtMostOne(ts) }
      \cup { ts \in { <<a, b, c>> : a \in AnLTask(1), b \in AnLTask(2), c \in AnLTask(3) } :
               InterferersAtMostOne(ts) }

\* The engine before construction, while the analysis runs on its own.
SimIdle ==
    /\ tasks = << >>
    /\ jobs = << >>
    /\ running_job = None
    /\ ready_jobs_queue = EmptyBag
    /\ event_queue = EmptyBag
    /\ event_history = << >>
    /\ last_context_switch = 0
    /\ now = 0
    /\ mode = "LMode"
    /\ running_history = << >>
    /\ random_execution_time = FALSE
    /\ duration = 0
    /\ pc = "none"
    /\ within_budget = TRUE
    /\ agent = NoAgent
    /\ agent_dispatches = 0
    /\ overflow_checks = FALSE

AnInit ==
    /\ an_tasks \in AnTaskSets
    /\ an_task = None
    /\ an_mode = "LMode"
    /\ an_result = NoneOption
    /\ an_pc = "input"
    /\ an_cache = << >>
    /\ an_approximate = FALSE
    /\ an_previous = NoneOption
    /\ SimIdle

\* A call response_time(task, tasks, mode).
AnResponseTime ==
    /\ an_pc = "input"
    /\ \E i \in DOMAIN an_tasks, m \in {"LMode", "HMode"} :
          /\ an_task' = i
          /\ an_mode' = m
          /\ an_result' = response_time(an_tasks[i], an_tasks, m)
    /\ an_pc' = "response_time"
    /\ UNCHANGED <<an_tasks, an_cache, an_approximate, an_previous>>
    /\ UNCHANGED simvars

AnNext == AnResponseTime

AnSpec == AnInit /\ [][AnNext]_vars

(***************************************************************************)
(* Properties of the response-time analysis.                               *)
(***************************************************************************)
\* The right-hand side of the recurrence of the analysed task at r, in exact
\* integer arithmetic: WCET plus, for every task of strictly higher priority,
\* ceil(r / period) * WCET.
Recurrence(r) ==
    LET task == an_tasks[an_task]
        sum[i \in 0..Len(an_tasks)] ==
            IF i = 0 THEN 0
            ELSE IF Priority(an_tasks[i]) < Priority(task)
                 THEN sum[i - 1]
                        + ((r + an_tasks[i].period - 1) \div an_tasks[i].period)
                            * wcet_in_mode(an_tasks[i], an_mode)
                 ELSE sum[i - 1]
    IN wcet_in_mode(task, an_mode) + sum[Len(an_tasks)]

\* The iterates R0 = WCET, R(n+1) = Recurrence(Rn), for n up to the bound, as
\* the sequence <<R0, ..., R100>> (built in halves; the test on half makes the
\* first half a value before the second is built on it).
RECURSIVE IteratesFrom(_, _)
IteratesFrom(seq, n) ==
    IF n = 0 THEN seq
    ELSE IF n = 1 THEN Append(seq, Recurrence(seq[Len(seq)]))
    ELSE LET half == IteratesFrom(seq, n \div 2)
         IN IF Len(half) = 0 THEN half ELSE IteratesFrom(half, n - n \div 2)
Iterates == IteratesFrom(<<wcet_in_mode(an_tasks[an_task], an_mode)>>, MaxIterations)
Iterate(R, n) == R[n + 1]

\* C10: a result Some(R) of responseTime is a fixed point of the recurrence
\* over the strictly higher-priority tasks and the first iterate, from
\* R0 = WCET, at which the iteration repeats; the result is None exactly when
\* no two consecutive iterates are equal within 100 iterations.
C10_ResponseTimeFixedPoint ==
    an_pc = "response_time" =>
        LET R == Iterates
            repeats == {n \in 0..(MaxIterations - 1) : Iterate(R, n + 1) = Iterate(R, n)}
        IN /\ an_result.some =>
                 /\ Recurrence(an_result.value) = an_result.value
                 /\ \E n \in repeats :
                       /\ Iterate(R, n) = an_result.value
                       /\ \A k \in repeats : n <= k
           /\ ~an_result.some <=> repeats = {}
\* The inputs whose iterates f32 holds exactly.
SmallInput == \A i \in DOMAIN an_tasks : an_tasks[i].wcet_h <= AnMaxWcet + 1
C10_SmallInputs == SmallInput => C10_ResponseTimeFixedPoint
\* A result reached after more than two iterations, with two interfering tasks.
C10_Witness ==
    /\ an_pc = "response_time"
    /\ an_result.some
    /\ an_result.value > Iterate(Iterates, 1)
    /\ an_task = 3
C10_WitnessNone ==
    /\ an_pc = "response_time"
    /\ ~an_result.some

\* The response times tests::non_feasible_in_mode_2 expects.
NonFeasibleInMode2Expected ==
    (an_pc = "response_time" /\ an_tasks = NonFeasibleInMode2) =>
        an_result = Some(IF an_mode = "HMode" THEN <<1, 2, 6, 8, 29>>[an_task]
                         ELSE <<1, 2, 6, 8, 29>>[an_task])

(***************************************************************************)
(* simulator/validation.rs: feasibility in a mode and across mode changes. *)
(*                                                                         *)
(* Option::unwrap on None panics: a function that may reach one returns    *)
(* [panic, value], the others their plain value.  The cache of low-mode    *)
(* response times (HashMap<TaskId, f32>) is a function from task ids to    *)
(* whole f32 values.                                                       *)
(***************************************************************************)
Returns(v) == [panic |-> FALSE, value |-> v]
Panics == [panic |-> TRUE, value |-> FALSE]

IsHTask(t) == t.kind = "H"

\* A mutant: every task is eligible in high mode as well.
EligibleTasksAll(ts, m) == ts

\* The tasks feasible_in_mode analyses in mode m.
EligibleTasks(ts, m) ==
    IF m = "LMode" THEN ts ELSE SelectSeq(ts, IsHTask)

\* The test of feasible_in_mode on one task, r being its response time.
FeasibleTask(task, m, r) ==
    /\ wcet_in_mode(task, m) # 0
    /\ r.some
    /\ r.value <= task.period

feasible_in_mode(ts, m) ==
    LET eligible_tasks == EligibleTasks(ts, m)
    IN \A i \in DOMAIN eligible_tasks :
          FeasibleTask(eligible_tasks[i], m,
                       response_time(eligible_tasks[i], eligible_tasks, m))

\* The low-mode response time of t as f32: the cached value, else
\* response_time(t, tasks, LMode).unwrap() as f32.
UnwrapAsF32(r) == IF r.some THEN Returns(F32(r.value)) ELSE Panics

ResponseTimeLo(t, ts, cache) ==
    IF t.id \in DOMAIN cache
    THEN Returns(cache[t.id])
    ELSE UnwrapAsF32(response_time(t, ts, "LMode"))

\* Sum over the tasks of ts that Keep selects of
\* ceil(R_lo(t) / period(t)) * wcet_l(t), in TimeUnit.
LowModeTerm(sum, t, lo) ==
    IF sum.panic \/ lo.panic THEN Panics
    ELSE Returns(sum.value
                   + F32DivCeil(lo.value, F32(t.period)) * wcet_in_mode(t, "LMode"))

LowModeInterference(ts, all, cache, Keep(_)) ==
    LET sel == SelectSeq(ts, Keep)
        f[i \in 0..Len(sel)] ==
            IF i = 0 THEN Returns(0)
            ELSE LowModeTerm(f[i - 1], sel[i], ResponseTimeLo(sel[i], all, cache))
    IN f[Len(sel)]

\* Sum over the higher-priority HTasks of ceil(r / period(t)) * wcet_h(t), for
\* the TimeUnit r taken as f32.
HighModeInterference(task, ts, r) ==
    LET higher == SelectSeq(ts, LAMBDA t : IsHTask(t) /\ Priority(t) < Priority(task))
    IN SeqSum([i \in DOMAIN higher |->
                 F32DivCeil(F32(r), F32(higher[i].period))
                   * wcet_in_mode(higher[i], "HMode")])

\* The end of a turn of the loop of response_time_in_mode_changes::<false>.
ModeChangeTurn(st, new_total_response_time) ==
    IF new_total_response_time = st.total_response_time
    THEN [st EXCEPT !.result = Some(new_total_response_time)]
    ELSE [st EXCEPT !.total_response_time = new_total_response_time]

\* One turn of the loop of response_time_in_mode_changes::<false>.
ModeChangeIteration(task, ts, interference_by_ltasks, st) ==
    IF st.result.some
    THEN st
    ELSE ModeChangeTurn(st, wcet_in_mode(task, "HMode")
                              + HighModeInterference(task, ts, st.total_response_time)
                              + interference_by_ltasks)

\* n turns of that loop, in order (split in halves as ResponseTimeLoop).
RECURSIVE ModeChangeLoop(_, _, _, _, _)
ModeChangeLoop(task, ts, interference_by_ltasks, st, n) ==
    IF n = 0 THEN st
    ELSE IF n = 1 THEN ModeChangeIteration(task, ts, interference_by_ltasks, st)
    ELSE LET half == ModeChangeLoop(task, ts, interference_by_ltasks, st, n \div 2)
         IN IF half.result.some THEN half
            ELSE ModeChangeLoop(task, ts, interference_by_ltasks, half, n - n \div 2)

\* response_time_in_mode_changes::<APPROXIMATE>(task, tasks, cache)
\* The part of response_time_in_mode_changes after the interference of the
\* LTasks has been summed up.
ModeChangeResponseTime(approximate, task, ts, interference_by_ltasks) ==
    IF interference_by_ltasks.panic THEN Panics
    ELSE IF approximate
    THEN Returns(Some(wcet_in_mode(task, "HMode")
                        + interference_by_ltasks.value
                        + HighModeInterference(task, ts, task.period)))
    ELSE Returns(ModeChangeLoop(task, ts, interference_by_ltasks.value,
                    [total_response_time |-> wcet_in_mode(task, "HMode"),
                     result |-> NoneOption],
                    MaxIterations).result)

response_time_in_mode_changes(approximate, task, ts, cache) ==
    IF ~IsHTask(task)
    THEN Returns(NoneOption)
    ELSE ModeChangeResponseTime(approximate, task, ts,
             LowModeInterference(ts, ts, cache,
                 LAMBDA t : ~IsHTask(t) /\ Priority(t) < Priority(task)))

\* The first loop of feasible_mode_changes::<true> (eq. 5) on one HTask:
\* TRUE when the loop goes on to the next task.
LowModeBoundTest(task, interference, response_time_lo) ==
    IF interference.panic \/ response_time_lo.panic THEN Panics
    ELSE Returns(~(wcet_in_mode(task, "LMode") + interference.value
                     > response_time_lo.value))

LowModeBound(task, ts, cache) ==
    LowModeBoundTest(task,
        LowModeInterference(ts, ts, cache, LAMBDA t : Priority(t) < Priority(task)),
        ResponseTimeLo(task, ts, cache))

\* A mutant: the response time across a mode change is taken over the whole
\* task set.
ModeChangeTasksWhole(ts, eligible_tasks) == ts

\* The task set feasible_mode_changes hands to response_time_in_mode_changes.
ModeChangeTasks(ts, eligible_tasks) == eligible_tasks

\* The test of the second loop of feasible_mode_changes on one HTask, r being
\* its response time across a mode change.
ModeChangeTest(task, r) ==
    IF r.panic THEN Panics
    ELSE Returns(r.value.some /\ r.value.value <= task.period)

\* feasible_mode_changes::<APPROXIMATE>(tasks, cache)
feasible_mode_changes(approximate, ts, cache) ==
    LET eligible_tasks == SelectSeq(ts, IsHTask)
        n == Len(eligible_tasks)
        \* eq. 5: "go on" is Returns(TRUE), "return false" is Returns(FALSE)
        first[i \in 0..n] ==
            IF i = 0 THEN Returns(TRUE)
            ELSE IF first[i - 1].panic \/ ~first[i - 1].value THEN first[i - 1]
            ELSE LowModeBound(eligible_tasks[i], ts, cache)
        \* AMC-rtb (eq. 6)
        second[i \in 0..n] ==
            IF i = 0 THEN Returns(TRUE)
            ELSE IF second[i - 1].panic \/ ~second[i - 1].value THEN second[i - 1]
            ELSE ModeChangeTest(eligible_tasks[i],
                     response_time_in_mode_changes(approximate, eligible_tasks[i],
                         ModeChangeTasks(ts, eligible_tasks), cache))
    IN IF approximate /\ (first[n].panic \/ ~first[n].value)
       THEN first[n]
       ELSE second[n]

EmptyCache == << >>

feasible_schedule_design_time(ts) ==
    IF feasible_in_mode(ts, "LMode") /\ feasible_in_mode(ts, "HMode")
    THEN feasible_mode_changes(FALSE, ts, EmptyCache)
    ELSE Returns(FALSE)

feasible_schedule_online(ts, cache) ==
    IF feasible_in_mode(ts, "LMode")
    THEN feasible_mode_changes(TRUE, ts, cache)
    ELSE Returns(FALSE)

(***************************************************************************)
(* Inputs of the feasibility analysis: the task sets of the tests, two     *)
(* task sets whose recurrences take about a hundred turns, and a bounded   *)
(* family of pairs of tasks with custom priorities 1 and 2 whose budgets   *)
(* need not be ordered (wcet_l may exceed wcet_h, a budget may be zero or  *)
(* exceed the period), as the analysis may be handed any task set.         *)
(***************************************************************************)
FeasibleModeChange1 ==
    << new_with_custom_priority("H", 1, 3, 4, 0, 8, 3, UNUSED_TIME),
       new_with_custom_priority("L", 2, 2, 2, 0, 8, 1, UNUSED_TIME),
       new_with_custom_priority("L", 3, 2, 2, 0, 8, 2, UNUSED_TIME) >>

FeasibleModeChange2 ==
    << new_with_custom_priority("H", 1, 3, 4, 0, 8, 3, UNUSED_TIME),
       new_with_custom_priority("H", 2, 2, 2, 0, 8, 1, UNUSED_TIME),
       new_with_custom_priority("L", 3, 2, 2, 0, 8, 2, UNUSED_TIME) >>

\* Two HTasks of high-mode utilisation 65/66 + 135/8910 = 1: the recurrence of
\* the second across a mode change reaches its fixed point 8910 on turn 101.
SlowModeChange ==
    << new_with_custom_priority("H", 1, 1, 65, 0, 66, 1, UNUSED_TIME),
       new_with_custom_priority("H", 2, 1, 135, 0, 8910, 2, UNUSED_TIME) >>

\* Three LTasks: the recurrence of the third reaches its fixed point on turn
\* 101 when the second has budget 1, and on turn 100 when it has budget 2.
SlowResponseTime(wcet) ==
    << new_with_custom_priority("L", 1, 107, 107, 0, 109, 1, UNUSED_TIME),
       new_with_custom_priority("L", 2, wcet, 2, 0, 1000000, 2, UNUSED_TIME),
       new_with_custom_priority("L", 3, 324, 324, 0, 20000, 3, UNUSED_TIME) >>

\* Scenario D: a single HTask{wcet_l = 2, wcet_h = 3, offset = 0, period = 4}
\* whose execution time e is above its wcet_h.
ScenarioD(e) == << new_with_custom_priority("H", 1, 2, 3, 0, 4, 1, e) >>

ScenarioDSets == { ScenarioD(3 + e) : e \in 1..MaxExec }

FeasTask(i) ==
    { new_with_custom_priority(k, i, wl, wh, 0, p, i, UNUSED_TIME) :
        k \in {"L", "H"}, wl \in 0..AnMaxWcet, wh \in 0..AnMaxWcet, p \in 1..AnMaxPeriod }

\* The first task's budgets use at most its period, so that the iterates of
\* the second grow by a bounded amount a turn.
FeasTaskSets ==
    { FeasibleModeChange1, FeasibleModeChange2, NonFeasibleInMode2, SlowModeChange,
      SlowResponseTime(1), SlowResponseTime(2) }
      \cup ScenarioDSets
      \cup { ts \in { <<a, b>> : a \in FeasTask(1), b \in FeasTask(2) } :
               Max(ts[1].wcet_l, ts[1].wcet_h) <= ts[1].period }

\* The caches handed to the analysis: none, or the low-mode response time of
\* one task.
Caches(ts) ==
    { EmptyCache } \cup { (ts[i].id :> v) : i \in DOMAIN ts, v \in 1..AnMaxPeriod }

FeasInit ==
    /\ an_tasks \in FeasTaskSets
    /\ an_task = None
    /\ an_mode = "LMode"
    /\ an_result = NoneOption
    /\ an_pc = "input"
    /\ an_cache = EmptyCache
    /\ an_approximate = FALSE
    /\ an_previous = NoneOption
    /\ SimIdle

\* A call feasible_in_mode(tasks, mode).
AnFeasibleInMode ==
    /\ an_pc = "input"
    /\ \E m \in {"LMode", "HMode"} :
          /\ an_mode' = m
          /\ an_result' = feasible_in_mode(an_tasks, m)
    /\ an_pc' = "feasible_in_mode"
    /\ UNCHANGED <<an_tasks, an_task, an_cache, an_approximate, an_previous>>
    /\ UNCHANGED simvars

\* A call feasible_mode_changes::<APPROXIMATE>(tasks, cache).
AnFeasibleModeChanges ==
    /\ an_pc = "input"
    /\ \E approximate \in BOOLEAN, cache \in Caches(an_tasks) :
          /\ an_approximate' = approximate
          /\ an_cache' = cache
          /\ an_result' = feasible_mode_changes(approximate, an_tasks, cache)
    /\ an_pc' = "feasible_mode_changes"
    /\ UNCHANGED <<an_tasks, an_task, an_mode, an_previous>>
    /\ UNCHANGED simvars

\* A call feasible_schedule_design_time(tasks).
AnDesignTime ==
    /\ an_pc = "input"
    /\ an_result' = feasible_schedule_design_time(an_tasks)
    /\ an_pc' = "design_time"
    /\ UNCHANGED <<an_tasks, an_task, an_mode, an_cache, an_approximate, an_previous>>
    /\ UNCHANGED simvars

\* A call feasible_schedule_online(tasks, cache).
AnOnline ==
    /\ an_pc = "input"
    /\ \E cache \in Caches(an_tasks) :
          /\ an_cache' = cache
          /\ an_result' = feasible_schedule_online(an_tasks, cache)
    /\ an_pc' = "online"
    /\ UNCHANGED <<an_tasks, an_task, an_mode, an_approximate, an_previous>>
    /\ UNCHANGED simvars

\* After response_time(task, tasks, mode): the same call on the task set in
\* which one task of higher or equal priority has one more unit of budget in
\* that mode (the larger task set being an input of the family as well).
AnIncreaseWcet ==
    /\ an_pc = "response_time"
    /\ \E j \in DOMAIN an_tasks :
          LET field == IF an_mode = "LMode" THEN "wcet_l" ELSE "wcet_h"
              increased == [an_tasks EXCEPT ![j][field] = @ + 1]
          IN /\ Priority(an_tasks[j]) <= Priority(an_tasks[an_task])
             /\ increased \in FeasTaskSets
             /\ an_tasks' = increased
             /\ an_previous' = an_result
             /\ an_result' = response_time(increased[an_task], increased, an_mode)
    /\ an_pc' = "increased"
    /\ UNCHANGED <<an_task, an_mode, an_cache, an_approximate>>
    /\ UNCHANGED simvars

FeasNext ==
    \/ AnResponseTime
    \/ AnIncreaseWcet
    \/ AnFeasibleInMode
    \/ AnFeasibleModeChanges
    \/ AnDesignTime
    \/ AnOnline

FeasSpec == FeasInit /\ [][FeasNext]_vars

(***************************************************************************)
(* Properties of the feasibility analysis.                                 *)
(***************************************************************************)
\* The response time of HTask i across a mode change, over the whole task set
\* an_tasks, converges and is at most the task's period.
ModeChangeFeasibleOverWholeSet(i) ==
    LET r == response_time_in_mode_changes(FALSE, an_tasks[i], an_tasks, an_cache)
    IN /\ ~r.panic
       /\ r.value.some
       /\ r.value.value <= an_tasks[i].period

\* C11: feasibleModeChanges(taskSet, exact) returns true only if, for every
\* HTask of the task set, the mode-change response time computed over the whole
\* task set (its wcet_h, the high-mode interference of higher-priority HTasks
\* and the low-mode interference of higher-priority LTasks) converges and is
\* at most the task's period.
C11_ModeChangeOverWholeSet ==
    (an_pc = "feasible_mode_changes" /\ ~an_approximate /\ an_result = Returns(TRUE)) =>
        \A i \in DOMAIN an_tasks : IsHTask(an_tasks[i]) => ModeChangeFeasibleOverWholeSet(i)

\* C12: if feasibleModeChanges with approximate = true returns true, then
\* feasibleModeChanges with approximate = false returns true for the same task
\* set and the same cache.
C12_ApproximateSound ==
    (an_pc = "feasible_mode_changes" /\ an_approximate /\ an_result = Returns(TRUE)) =>
        feasible_mode_changes(FALSE, an_tasks, an_cache) = Returns(TRUE)

\* Task i is eligible in the analysed mode: every task in LMode, the HTasks in
\* HMode.
Eligible(i) == an_mode = "LMode" \/ an_tasks[i].kind = "H"
\* The eligible tasks, in the order of the task set.
EligibleSet == SelectSeq(an_tasks, LAMBDA t : an_mode = "LMode" \/ t.kind = "H")

\* C13: feasibleInMode(taskSet, mode) returns true iff every eligible task (all
\* tasks in LMode, only the HTasks in HMode, the interference being computed
\* over the eligible tasks only) has a non-zero WCET in the mode, a converging
\* responseTime and a responseTime of at most its period.
C13_FeasibleInMode ==
    an_pc = "feasible_in_mode" =>
        (an_result <=>
            \A i \in DOMAIN an_tasks :
                Eligible(i) =>
                    LET r == response_time(an_tasks[i], EligibleSet, an_mode)
                    IN /\ wcet_in_mode(an_tasks[i], an_mode) > 0
                       /\ r.some
                       /\ r.value <= an_tasks[i].period)
\* The task set of tests::non_feasible_in_mode_2 is feasible in HMode; its
\* LTasks make it infeasible in LMode.
C13_Witness ==
    /\ an_pc = "feasible_in_mode"
    /\ an_tasks = NonFeasibleInMode2
    /\ an_mode = "HMode"
    /\ an_result
    /\ ~feasible_in_mode(an_tasks, "LMode")

\* C14: increasing the WCET, in the analysed mode, of a task of higher or equal
\* priority never decreases responseTime: a Some(R) does not become a smaller
\* Some, and a None does not become a Some.
C14_Monotonic ==
    an_pc = "increased" =>
        IF an_previous.some
        THEN an_result.some => an_result.value >= an_previous.value
        ELSE ~an_result.some

\* C15: a task set that feasibleScheduleDesignTime or feasibleScheduleOnline
\* accepts has 0 < wcet_l <= wcet_h <= period for every task.
C15_BudgetInvariant ==
    (an_pc \in {"design_time", "online"} /\ an_result = Returns(TRUE)) =>
        \A i \in DOMAIN an_tasks :
            /\ 0 < an_tasks[i].wcet_l
            /\ an_tasks[i].wcet_l <= an_tasks[i].wcet_h
            /\ an_tasks[i].wcet_h <= an_tasks[i].period

(***************************************************************************)
(* agent/mod.rs: the budget mutations of the agent.                        *)
(*                                                                         *)
(* A SimulatorActionPart is [kind, id] with kind "WcetIncrease",           *)
(* "WcetDecrease" or "None"; an action is a sequence of parts.  The f32    *)
(* literals 0.1 and 0.05 are mantissa * 2^-exponent.                       *)
(***************************************************************************)
WcetIncrease(id) == [kind |-> "WcetIncrease", id |-> id]
WcetDecrease(id) == [kind |-> "WcetDecrease", id |-> id]
NoneAction == [kind |-> "None", id |-> 0]

F32_0_1 == [mantissa |-> 13421773, exponent |-> 27]
F32_0_05 == [mantissa |-> 13421773, exponent |-> 28]

\* (n as f32 * c) as TimeUnit, for the f32 literal c: the product is rounded
\* to f32 and then truncated.
F32MulTrunc(n, c) == F32(F32(n) * c.mantissa) \div Pow2(c.exponent)

\* The amount by which apply changes wcet_l: 10% of wcet_h for an increase, 5%
\* for a decrease.
Amount(part, task) ==
    F32MulTrunc(task.wcet_h, IF part.kind = "WcetIncrease" THEN F32_0_1 ELSE F32_0_05)

\* SimulatorActionPart::apply
apply(part, ts) ==
    IF part.kind = "None" THEN ts
    ELSE LET i == CHOOSE k \in DOMAIN ts : ts[k].id = part.id
             amount == Amount(part, ts[i])
         IN IF part.kind = "WcetIncrease"
            THEN [ts EXCEPT ![i].wcet_l = @ + amount]
            ELSE [ts EXCEPT ![i].wcet_l = Max(@ - amount, 0)]

\* SimulatorActionPart::reverse
reverse(part) ==
    IF part.kind = "WcetIncrease" THEN WcetDecrease(part.id)
    ELSE IF part.kind = "WcetDecrease" THEN WcetIncrease(part.id)
    ELSE NoneAction

\* action.iter().for_each(|a| a.apply(tasks))
ApplyAll(action, ts) ==
    LET f[n \in 0..Len(action)] == IF n = 0 THEN ts ELSE apply(action[n], f[n - 1])
    IN f[Len(action)]

\* A mutant: no pair of decreases counts as seen.
AlreadyPairedNever(decrease_pairs, decrease_second, decrease_third) == FALSE

\* The test of generate_actions that avoids duplicate actions: the pair was
\* pushed the other way round for this increase.
AlreadyPaired(decrease_pairs, decrease_second, decrease_third) ==
    \E n \in DOMAIN decrease_pairs :
        decrease_pairs[n][1] = decrease_third /\ decrease_pairs[n][2] = decrease_second

\* The body of the innermost loop of generate_actions for the tasks at i, j
\* and k: st holds the pairs of decreases and the actions of this increase so
\* far.
ActionTurn(ts, st, i, j, k) ==
    IF \/ ts[j].id = ts[i].id
       \/ ts[k].id = ts[i].id
       \/ ts[k].id = ts[j].id
       \/ AlreadyPaired(st.decrease_pairs, WcetDecrease(ts[j].id), WcetDecrease(ts[k].id))
    THEN st
    ELSE [decrease_pairs |->
              Append(st.decrease_pairs, <<WcetDecrease(ts[j].id), WcetDecrease(ts[k].id)>>),
          actions |->
              Append(st.actions, <<WcetIncrease(ts[i].id), WcetDecrease(ts[j].id),
                                   WcetDecrease(ts[k].id)>>)]

\* One turn of the outer loop of generate_actions: the actions that increase
\* the task at i, turn m of the two inner loops being that of the m-th pair
\* (j, k); decrease_pairs starts empty.
IncreaseActions(ts, i) ==
    LET n == Len(ts)
        turn[m \in 0..(n * n)] ==
            IF m = 0
            THEN [decrease_pairs |-> << >>, actions |-> << >>]
            ELSE ActionTurn(ts, turn[m - 1], i, ((m - 1) \div n) + 1, ((m - 1) % n) + 1)
    IN turn[n * n].actions

\* SimulatorAgent::generate_actions
generate_actions(ts) ==
    LET actions[i \in 0..Len(ts)] ==
            IF i = 0 THEN << >> ELSE actions[i - 1] \o IncreaseActions(ts, i)
    IN actions[Len(ts)]

\* The actions activate may get from its policy: one of generate_actions, or
\* the single part None.
Actions(ts) ==
    LET actions == generate_actions(ts)
    IN { actions[n] : n \in DOMAIN actions } \cup { <<NoneAction>> }

\* The part of SimulatorAgent::activate that changes the engine: apply the
\* action, and revert it when the task set is not feasible online.  The
\* result is [tasks, rejected].
activate(ts, action, cache) ==
    LET applied == ApplyAll(action, ts)
    IN IF action[1].kind # "None"
       THEN IF ~feasible_schedule_online(applied, cache).value
            THEN [tasks |-> ApplyAll([n \in DOMAIN action |-> reverse(action[n])], applied),
                  rejected |-> TRUE]
            ELSE [tasks |-> applied, rejected |-> FALSE]
       ELSE [tasks |-> applied, rejected |-> FALSE]

(***************************************************************************)
(* Inputs of activate: three tasks with custom priorities 1..3 and a       *)
(* common period, budgets of which 10% and 5% differ.                      *)
(***************************************************************************)
MutWcetH == 20
MutPeriod == 60

MutTask(i) ==
    { new_with_custom_priority(k, i, wl, wh, 0, MutPeriod, i, UNUSED_TIME) :
        k \in {"L", "H"}, wh \in {MutWcetH \div 2, MutWcetH}, wl \in {1, MutWcetH \div 2, MutWcetH} }

MutTaskSets ==
    { ts \in { <<a, b, c>> : a \in MutTask(1), b \in MutTask(2), c \in MutTask(3) } :
        \A i \in DOMAIN ts : ts[i].wcet_l <= ts[i].wcet_h }

MutInit ==
    /\ an_tasks \in MutTaskSets
    /\ an_task = None
    /\ an_mode = "LMode"
    /\ an_result = NoneOption
    /\ an_pc = "input"
    /\ an_cache = EmptyCache
    /\ an_approximate = TRUE
    /\ an_previous = NoneOption
    /\ SimIdle

\* SimulatorAgent::activate on the task set: an_previous keeps the tasks from
\* before the call, an_result the action and whether it was rejected.
AgActivate ==
    /\ an_pc = "input"
    /\ \E action \in Actions(an_tasks), cache \in {EmptyCache, (an_tasks[1].id :> 1)} :
          LET r == activate(an_tasks, action, cache)
          IN /\ an_tasks' = r.tasks
             /\ an_result' = [action |-> action, rejected |-> r.rejected]
             /\ an_cache' = cache
    /\ an_previous' = an_tasks
    /\ an_pc' = "activated"
    /\ UNCHANGED <<an_task, an_mode, an_approximate>>
    /\ UNCHANGED simvars

MutNext == AgActivate

MutSpec == MutInit /\ [][MutNext]_vars

\* C16: when the mutation the agent proposes fails the online feasibility
\* check, the revert restores the wcet_l of every task to the value it had
\* before the mutation was applied.
C16_RevertRestores ==
    (an_pc = "activated" /\ an_result.rejected) =>
        \A i \in DOMAIN an_tasks : an_tasks[i].wcet_l = an_previous[i].wcet_l

(***************************************************************************)
(* The engine with an agent attached: the task sets of the engine tests,   *)
(* run for the duration of the test and past the second arrival of the     *)
(* agent's task, in a build with and without overflow checks.              *)
(***************************************************************************)
AgentRuns ==
    TestRuns \cup { <<run[1], AgentHorizon, FALSE>> : run \in TestRuns }

AgentInit ==
    /\ \E run \in AgentRuns, checks \in BOOLEAN : SimNew(run, PlaceboAgent, checks)
    /\ AnIdle

AgentSpec == AgentInit /\ [][Next]_vars

\* The agent's task and job in the running engine.
AgentJobs == {i \in DOMAIN jobs : jobs[i].is_agent}

\* C17: with an agent attached, each dispatch of the agent's job to the
\* processor, on its Start event or from the ready queue, comes with exactly
\* one call of the agent's activate hook: there are as many activations as
\* dispatches of the agent's job.
C17_ActivateOnEveryDispatch ==
    agent.attached => agent.activations = agent_dispatches

\* C18: the id of the agent's task is priority-encoded like the ids of the
\* other tasks (custom priority * MAX_TASKS_SIZE + MAX_TASKS_SIZE + original
\* id, the original id being the number of tasks + 1), so that every task of a
\* smaller custom priority value has a smaller id than the agent's task.
C18_AgentIdEncoded ==
    (pc = "fire" /\ agent.attached) =>
        \A a \in AgentJobs :
            /\ tasks[a].id = EncodeId([tasks[a] EXCEPT !.id = a])
            /\ \A i \in DOMAIN tasks :
                  tasks[i].custom_priority < tasks[a].custom_priority
                      => tasks[i].id < tasks[a].id

\* C19: fire computes no real_id that underflows, and when it has returned
\* the id of every task, the agent's included, is its original id (task i of
\* every explored input has the original id i).
C19_IdsRestored ==
    /\ pc # "panic"
    /\ pc = "done" => \A i \in DOMAIN tasks : tasks[i].id = i

(***************************************************************************)
(* Two tasks of equal priority: the same custom priority, or the same      *)
(* period under rate-monotonic priorities.                                 *)
(***************************************************************************)
EqTask(i) ==
    { new_with_custom_priority(k, i, GenWcetL, MaxExec, o, GenPeriod, 1, e) :
        k \in {"L", "H"}, o \in 0..MaxOffset, e \in 1..MaxExec }
      \cup { SimulatorTask(k, i, GenWcetL, MaxExec, o, GenPeriod, NoPriority, e, e) :
                k \in {"L", "H"}, o \in 0..MaxOffset, e \in 1..MaxExec }

EqRuns ==
    { << ts, Horizon, FALSE >> :
        ts \in { p \in EqTask(1) \X EqTask(2) : p[1].custom_priority = p[2].custom_priority } }

EqInit ==
    /\ \E run \in EqRuns : SimNew(run, NoAgent, FALSE)
    /\ AnIdle

EqSpec == EqInit /\ [][Next]_vars

\* The priority Simulator::new folds into the id of a task: the custom
\* priority, or the period (a smaller value is a higher priority).
EncodedPriority(t) == IF t.custom_priority # NoPriority THEN t.custom_priority ELSE t.period

\* C20: when fire handles a Start event while a job is running, and the
\* priority of the arriving job is not strictly higher than that of the
\* running job (equal priority included), the running job keeps the
\* processor and the arriving job is in the ready queue afterwards.
C20_NoPreemptionOnEqualPriority ==
    [][(/\ pc = "fire"
        /\ pc' = "fire"
        /\ Len(event_history') > Len(event_history)
        /\ event_history'[Len(event_history) + 1].type = "Start"
        /\ running_job # None
        /\ EncodedPriority(tasks[event_history'[Len(event_history) + 1].task])
              >= EncodedPriority(tasks[running_job]))
       => /\ running_job' = running_job
          /\ event_history'[Len(event_history) + 1].task \in DOMAIN ready_jobs_queue']_vars

(***************************************************************************)
(* Simulator::new on its own: pairs of tasks with distinct ids below, at   *)
(* and above MAX_TASKS_SIZE, with a custom priority or none.               *)
(***************************************************************************)
EncMaxPriority == 2

EncIds == {1, 2, MAX_TASKS_SIZE - 1, MAX_TASKS_SIZE, MAX_TASKS_SIZE + 1}

EncTask ==
    { SimulatorTask("L", id, 1, 1, 0, p, c, 1, 1) :
        id \in EncIds, p \in 1..EncMaxPriority,
        c \in {NoPriority} \cup 1..EncMaxPriority }

EncTaskSets == { ts \in EncTask \X EncTask : ts[1].id # ts[2].id }

EncInit ==
    /\ an_tasks \in EncTaskSets
    /\ an_task = None
    /\ an_mode = "LMode"
    /\ an_result = NoneOption
    /\ an_pc = "input"
    /\ an_cache = EmptyCache
    /\ an_approximate = FALSE
    /\ an_previous = NoneOption
    /\ SimIdle

\* Simulator::new(an_tasks, ..): the tasks of the simulator carry the encoded
\* ids.
EncNew ==
    /\ an_pc = "input"
    /\ tasks' = SimulatorNew(an_tasks)
    /\ an_pc' = "encoded"
    /\ UNCHANGED <<jobs, running_job, ready_jobs_queue, event_queue, event_history,
                   last_context_switch, now, mode, running_history,
                   random_execution_time, duration, pc, within_budget,
                   agent, agent_dispatches, overflow_checks>>
    /\ UNCHANGED <<an_tasks, an_task, an_mode, an_result, an_cache, an_approximate,
                   an_previous>>

EncNext == EncNew

EncSpec == EncInit /\ [][EncNext]_vars

\* C21: for tasks with pairwise distinct original ids the encoded ids are
\* pairwise distinct, and a task with a strictly smaller priority number
\* (custom priority, else period) has a strictly smaller encoded id.
C21_EncodingOrdersByPriority ==
    an_pc = "encoded" =>
        \A i, j \in DOMAIN tasks :
            /\ i # j => tasks[i].id # tasks[j].id
            /\ EncodedPriority(an_tasks[i]) < EncodedPriority(an_tasks[j])
                  => tasks[i].id < tasks[j].id

\* C22: no function of the analysis panics: feasible_mode_changes,
\* feasible_schedule_design_time and feasible_schedule_online return a value
\* for every task set and cache (response_time and feasible_in_mode hold no
\* operation that can panic).
C22_AnalysisNeverPanics ==
    (an_pc \in {"feasible_mode_changes", "design_time", "online"}) => ~an_result.panic

\* Task i of the analysed set breaks the low-mode bound: its wcet_l plus the
\* interference of the strictly-higher-priority tasks exceeds its own
\* low-mode response time (cached or computed).
BreaksLowModeBound(i) == LowModeBound(an_tasks[i], an_tasks, an_cache) = Returns(FALSE)

\* C23: feasibleModeChanges with approximate = true returns false whenever
\* some task of the task set, LTask or HTask, breaks the low-mode bound.
C23_LowModeBoundForEveryTask ==
    (/\ an_pc = "feasible_mode_changes"
     /\ an_approximate
     /\ ~an_result.panic
     /\ \E i \in DOMAIN an_tasks : BreaksLowModeBound(i))
        => an_result = Returns(FALSE)

\* C24: Scenario D, analysis: feasible_schedule_design_time returns false for
\* the single HTask{wcet_l = 2, wcet_h = 3, period = 4} whose execution time
\* exceeds wcet_h.
C24_ScenarioDRejected ==
    (an_pc = "design_time" /\ an_tasks \in ScenarioDSets) => an_result = Returns(FALSE)

(***************************************************************************)
(* Scenario D in the engine, for every horizon from 2 on.                  *)
(***************************************************************************)
ScenarioDHorizon == 12

ScenarioDRuns ==
    { <<ts, d, FALSE>> : ts \in ScenarioDSets, d \in 2..ScenarioDHorizon }

ScenarioDInit ==
    /\ \E run \in ScenarioDRuns : SimNew(run, NoAgent, FALSE)
    /\ AnIdle

ScenarioDSpec == ScenarioDInit /\ [][Next]_vars

\* C25: Scenario D, engine: when fire has returned, for a horizon of 2 or
\* more, the event history holds at least one ModeChange(HMode).
C25_ScenarioDModeChange ==
    pc = "done" =>
        \E k \in Idx(event_history) :
            event_history[k].type = "ModeChange" /\ event_history[k].mode = "HMode"
C25_Witness ==
    /\ pc = "done"
    /\ duration = 2
    /\ ModeChanges(event_history) = << <<"HMode", 2>>, <<"LMode", 2>> >>

(***************************************************************************)
(* The event history and the agent's notifications: the engine without     *)
(* and with an agent.                                                      *)
(***************************************************************************)
HistoryInit == Init \/ AgentInit

HistorySpec == HistoryInit /\ [][Next]_vars

\* C26: the times of consecutive entries of the event history never decrease,
\* and with an agent attached the sequence of events passed to the agent's
\* push_event is the event history, entry by entry.
C26_ChronologicalAndNotified ==
    /\ \A k \in Idx(event_history) :
          k < Len(event_history) => event_history[k].time <= event_history[k + 1].time
    /\ agent.attached => agent.notified = event_history
\* With an agent attached, a Start, an End, a TaskKill and a ModeChange have
\* been logged.
C26_Witness ==
    /\ agent.attached
    /\ \A type \in {"Start", "End", "TaskKill", "ModeChange"} :
          \E k \in Idx(event_history) : event_history[k].type = type
    /\ \E k \in Idx(event_history) :
          k < Len(event_history) /\ event_history[k].time < event_history[k + 1].time

(***************************************************************************)
(* Determinism of fire.  The random source of a new simulator is           *)
(* source::default(42): what it yields is the same in every simulator, so  *)
(* a turn of the loop is a function of the state and of the execution time *)
(* the source yields for the task that starts.                             *)
(***************************************************************************)
\* What the random source may yield as execution time, task by task.
SampledExecTimes ==
    {d \in [DOMAIN tasks -> UNION {ExecTimes(tasks[i]) : i \in DOMAIN tasks}] :
        \A i \in DOMAIN tasks : d[i] \in ExecTimes(tasks[i])}

\* One turn of the dispatch loop that pops event, the source yielding d.
FireOutcome(event, d) ==
    LET popped == [Sim EXCEPT !.event_queue = HeapRemove(@, event), !.now = event.time]
    IN [panic |-> overflow_checks /\ DispatchUnderflows(event),
        ticks |-> Ticks(Sim, event.time),
        sim |-> IF event.type = "Start"
                THEN handle_start_event(popped, event.task, event.time, d[event.task])
                ELSE handle_end_event(popped, event.task, event.time, event.reason)]

\* The step taken is the outcome o.
StepIs(o) ==
    IF o.panic
    THEN pc' = "panic"
    ELSE /\ pc' = "fire"
         /\ Sim' = o.sim
         /\ running_history' = running_history \o o.ticks

JobHorizon == 4
JobPeriod == 3

JobWcet == 2

JobTask(id) ==
    { new_with_custom_priority(k, id, JobWcet, JobWcet, 0, JobPeriod, p, e) :
        k \in {"L", "H"}, p \in 1..EncMaxPriority, e \in 1..JobWcet }

JobRuns ==
    { << <<a, b>>, d, FALSE >> :
        a \in JobTask(1), b \in JobTask(2) \cup JobTask(MAX_TASKS_SIZE + 1), d \in 1..JobHorizon }

JobInit == (\E run \in JobRuns : SimNew(run, NoAgent, FALSE)) /\ AnIdle

JobSpec == JobInit /\ [][Next]_vars

\* The Start events of a task in the event queue, the entries of its job in
\* the ready queue, and whether its job runs.
PendingStarts(task) ==
    BagCardinality(HeapRetain(event_queue, LAMBDA e : e.type = "Start" /\ e.task = task))
ReadyEntries(task) ==
    BagCardinality(HeapRetain(ready_jobs_queue, LAMBDA j : j = task))
Running(task) == IF running_job = task THEN 1 ELSE 0

\* C28: between handlers each task has at most one pending Start event, at
\* most one entry in the ready queue, and is in at most one of the three
\* situations pending Start, running, ready; so no Start event is handled for a
\* task whose previous instance still runs or is ready.
C28_SingleJobPerTask ==
    pc = "fire" =>
        \A task \in DOMAIN tasks :
            PendingStarts(task) + ReadyEntries(task) + Running(task) <= 1

(***************************************************************************)
(* generate_actions on the task properties of the repository's test (ids   *)
(* 0..5) and on every sequence of up to ActMaxLen ids out of 0..ActMaxId.  *)
(***************************************************************************)
ActMaxLen == 4
ActMaxId == 3

\* TaskProps::new_empty (the record of a task, of which only the id counts)
new_empty(id) == SimulatorTask("L", id, 0, 0, 0, 0, NoPriority, 0, 0)

ActProps ==
    { [i \in 1..6 |-> new_empty(i - 1)] }
        \cup UNION { [1..n -> {new_empty(id) : id \in 0..ActMaxId}] : n \in 0..ActMaxLen }

ActInit ==
    /\ an_tasks \in ActProps
    /\ an_task = None
    /\ an_mode = "LMode"
    /\ an_result = NoneOption
    /\ an_pc = "input"
    /\ an_cache = EmptyCache
    /\ an_approximate = FALSE
    /\ an_previous = NoneOption
    /\ SimIdle

\* SimulatorAgent::generate_actions(an_tasks)
AgGenerateActions ==
    /\ an_pc = "input"
    /\ an_result' = generate_actions(an_tasks)
    /\ an_pc' = "generate_actions"
    /\ UNCHANGED <<an_tasks, an_task, an_mode, an_cache, an_approximate, an_previous>>
    /\ UNCHANGED simvars

ActNext == AgGenerateActions

ActSpec == ActInit /\ [][ActNext]_vars

DistinctIds(ts) == \A i, j \in DOMAIN ts : i # j => ts[i].id # ts[j].id

\* C29: for n tasks of pairwise distinct ids generate_actions returns
\* n * (n - 1) * (n - 2) / 2 actions, each an increase of one task and decreases
\* of two others, the three tasks distinct, and no two actions have the same
\* increase and the same two decreases in either order.
C29_GenerateActions ==
    (an_pc = "generate_actions" /\ DistinctIds(an_tasks)) =>
        LET n == Len(an_tasks)
            ids == { an_tasks[i].id : i \in DOMAIN an_tasks }
        IN /\ 2 * Len(an_result) = n * (n - 1) * (n - 2)
           /\ \A a \in DOMAIN an_result :
                 /\ \E i, j, k \in ids :
                       /\ an_result[a] = <<WcetIncrease(i), WcetDecrease(j), WcetDecrease(k)>>
                       /\ i # j /\ i # k /\ j # k
                 /\ \A b \in DOMAIN an_result :
                       (/\ a # b
                        /\ an_result[a][1] = an_result[b][1]
                        /\ {an_result[a][2], an_result[a][3]} = {an_result[b][2], an_result[b][3]})
                           => FALSE
\* The 60 actions of the six tasks of the repository's test.
C29_Witness ==
    /\ an_pc = "generate_actions"
    /\ DistinctIds(an_tasks)
    /\ Len(an_tasks) = 6
    /\ Len(an_result) = 60

(***************************************************************************)
(* Execution-time accounting (run_time of SimulatorJob).                   *)
(***************************************************************************)
\* The step handles the End event it appends to the event history.
HandlesEnd ==
    /\ pc = "fire"
    /\ Len(event_history') > Len(event_history)
    /\ event_history'[Len(event_history) + 1].type = "End"

\* The time of the last Start event of task in the event history (None
\* without one), found from the end of the history backwards.
LastStartTime(task) ==
    LET back[k \in 0..Len(event_history)] ==
            IF k = 0 THEN None
            ELSE IF event_history[k].type = "Start" /\ event_history[k].task = task
                 THEN event_history[k].time
                 ELSE back[k - 1]
    IN back[Len(event_history)]

\* The ticks of (from, to] at which the tick history shows the job of task
\* on the processor, the event at to handled.
Occupied(task, from, to) ==
    Cardinality({n \in (from + 1)..to : running_history'[n] = real_id(tasks[task])})

\* The End event handled closes an instance of job that has occupied the
\* processor for expected ticks and has accumulated that run_time.
AccountedFor(job, event, expected) ==
    /\ jobs'[job].run_time = expected
    /\ Occupied(job, LastStartTime(job), event.time) = expected

\* C30: when an End event of a job is handled, the run_time the job has
\* accumulated since its last Start, and the time it has occupied the processor
\* since then, is wcet_l of its task if the reason is BudgetExceedance and its
\* exec_time if the reason is JobCompletion, however often the job was
\* preempted and resumed; and the run_time of a job never exceeds its exec_time.
C30_RunTimeAccounting ==
    [][/\ HandlesEnd =>
            LET event == event_history'[Len(event_history) + 1]
                job == jobs_get(tasks, event.task)
            IN AccountedFor(job, event, IF event.reason = "BudgetExceedance"
                                        THEN tasks[job].wcet_l
                                        ELSE jobs[job].exec_time)
       /\ pc' = "fire" => \A job \in DOMAIN jobs' : jobs'[job].run_time <= jobs'[job].exec_time]_vars
\* The last event handled is the End of a job that completed after it was
\* preempted: more time than its exec_time has passed since its Start.
C30_Witness ==
    /\ pc = "fire"
    /\ \E k \in Idx(event_history) :
          LET start == event_history[k]
              end == Last(event_history)
          IN /\ start.type = "Start"
             /\ end.type = "End" /\ end.reason = "JobCompletion"
             /\ end.task = start.task
             /\ \A n \in Idx(event_history) :
                   (k < n /\ n < Len(event_history)) =>
                       ~(event_history[n].type \in {"Start", "End"}
                            /\ event_history[n].task = start.task)
             /\ end.time - start.time > jobs[start.task].exec_time
             /\ jobs[start.task].run_time = jobs[start.task].exec_time
    /\ \E k \in Idx(event_history) :
          event_history[k].type = "End" /\ event_history[k].reason = "BudgetExceedance"

(***************************************************************************)
(* The event queue between handled events.                                 *)
(***************************************************************************)
\* The End events in the event queue, copies counted.
PendingEnds == BagCardinality(HeapRetain(event_queue, LAMBDA e : e.type = "End"))

\* C31: between handled events the event queue holds only Start and End
\* events; with a job running it holds exactly one End event, the termination
\* event of the running job, and with the processor idle none; no event of a
\* job in the ready queue is left in the event queue.
C31_EventQueueShape ==
    pc = "fire" =>
        /\ \A e \in QueuedEvents : e.type \in {"Start", "End"}
        /\ IF running_job = None
           THEN PendingEnds = 0
           ELSE /\ PendingEnds = 1
                /\ \A e \in QueuedEvents :
                      e.type = "End" => e.task = running_job /\ e = jobs[running_job].event
        /\ \A job \in ReadyJobs : \A e \in QueuedEvents : e.task # job
\* A job runs while a preempted job, whose run_time is not zero, waits.
C31_Witness ==
    /\ pc = "fire"
    /\ running_job # None
    /\ PendingEnds = 1
    /\ \E job \in ReadyJobs : jobs[job].run_time > 0

(***************************************************************************)
(* Mode changes.                                                           *)
(***************************************************************************)
\* The target modes of the ModeChange events of a history, in order.
ModeTargets(seq) ==
    LET changes == SelectSeq(seq, LAMBDA e : e.type = "ModeChange")
    IN [k \in Idx(changes) |-> changes[k].mode]

\* C32: the ModeChange events of the event history alternate, starting with
\* HMode: the k-th is to HMode for odd k and to LMode for even k; and no End
\* event with reason BudgetExceedance is handled while the mode is HMode.
C32_ModeChangesAlternate ==
    [][/\ LET targets == ModeTargets(event_history')
          IN \A k \in Idx(targets) :
                targets[k] = IF k % 2 = 1 THEN "HMode" ELSE "LMode"
       /\ (HandlesEnd /\ event_history'[Len(event_history) + 1].reason = "BudgetExceedance")
              => mode = "LMode"]_vars
\* Two returns to LMode in one history, and a job in HMode between handlers.
C32_Witness ==
    /\ Len(ModeTargets(event_history)) >= 4
    /\ \E k \in Idx(event_history) :
          /\ k < Len(event_history)
          /\ event_history[k].type = "ModeChange" /\ event_history[k].mode = "HMode"
          /\ event_history[k + 1].type # "ModeChange"

\* The last handler has ended with a change to LMode.
BackInLMode ==
    /\ pc = "fire"
    /\ event_history # << >>
    /\ Last(event_history).type = "ModeChange"
    /\ Last(event_history).mode = "LMode"

\* C33: right after a ModeChange(LMode) every L-task has exactly one pending
\* Start event, at max(now, next_arrival), and no job of an L-task runs or is
\* in the ready queue.
C33_Readmission ==
    BackInLMode =>
        \A task \in DOMAIN tasks :
            IsL(task) =>
                /\ PendingStarts(task) = 1
                /\ StartEvent(task, Max(now, tasks[task].next_arrival)) \in QueuedEvents
                /\ running_job # task
                /\ task \notin ReadyJobs
\* Back in LMode with an L-task that was started before and whose next
\* arrival lies ahead.
C33_Witness ==
    /\ BackInLMode
    /\ \E task \in DOMAIN tasks :
          /\ IsL(task)
          /\ tasks[task].next_arrival > now
          /\ tasks[task].next_arrival > tasks[task].offset

(***************************************************************************)
(* Releases.                                                               *)
(***************************************************************************)
\* The Start events of task in the event history, in order.
StartsHandled(task) ==
    SelectSeq(event_history, LAMBDA e : e.type = "Start" /\ e.task = task)

\* The Starts of a task are as many as next_arrival tells, and none is early.
ReleasedOnTime(task, starts) ==
    /\ tasks[task].next_arrival = tasks[task].offset + Len(starts) * tasks[task].period
    /\ \A k \in Idx(starts) :
          starts[k].time >= tasks[task].offset + (k - 1) * tasks[task].period

\* C34: for every task next_arrival is offset + (number of Start events
\* handled for the task) * period, and the k-th Start event of the task, k
\* counted from 0, is handled at offset + k * period or later.
C34_ReleasesNeverEarly ==
    \A task \in DOMAIN tasks : ReleasedOnTime(task, StartsHandled(task))
\* An L-task admitted again after HMode starts later than its arrival, and a
\* task has started three times.
C34_Witness ==
    \E task \in DOMAIN tasks :
        LET starts == StartsHandled(task)
        IN /\ Len(starts) >= 2
           /\ starts[Len(starts)].time >
                  tasks[task].offset + (Len(starts) - 1) * tasks[task].period

BusyLead == 2

BusyTask(i) ==
    { new_with_custom_priority(k, i, GenWcetL, MaxExec, AGENT_PERIOD - lead, AGENT_PERIOD, i, e) :
        k \in {"L", "H"}, lead \in 1..BusyLead, e \in 1..MaxExec }

BusyRuns ==
    { << <<a, b>>, AgentHorizon, FALSE >> : a \in BusyTask(1), b \in BusyTask(2) }

BusyInit ==
    /\ \E run \in BusyRuns, checks \in BOOLEAN : SimNew(run, PlaceboAgent, checks)
    /\ AnIdle

BusySpec == BusyInit /\ [][Next]_vars

(***************************************************************************)
(* Termination of fire                                                     *)
(***************************************************************************)
\* The Start events handled so far, over all tasks.
StartsLogged == SelectSeq(event_history, LAMBDA e : e.type = "Start")

\* The events handled up to now are bounded in terms of now: the tasks have
\* started at most once each for every instant up to now (a period lasts at
\* least one instant), and every other event (End, TaskKill, ModeChange to
\* HMode and back) is owed to a job that started.
EventsBounded ==
    /\ Len(StartsLogged) <= Len(tasks) * (now + 1)
    /\ Len(event_history) <= 4 * Len(StartsLogged)

\* C36: fire terminates.  Whenever the dispatch loop is about to peek and pop
\* (it is in the loop and now is below the horizon) the event queue holds an
\* event and the turn is completed (the thread does not panic); every turn
\* logs at least one event; and the events logged up to an instant are
\* bounded in terms of that instant, so that no run handles events forever at
\* one instant: after finitely many turns now is at or past the horizon.
C36_FireTerminates ==
    [][/\ (pc' = "fire" /\ now' < duration') => event_queue' # EmptyBag
       /\ (pc = "fire" /\ now < duration) => pc' = "fire"
       /\ (pc = "fire" /\ pc' = "fire") => Len(event_history') > Len(event_history)
       /\ EventsBounded'
      ]_vars

(***************************************************************************)
(* The horizon                                                             *)
(***************************************************************************)
\* The handled events but the last are due before the horizon, the last one
\* at the horizon or later.
CutOff(handled) ==
    /\ handled # << >>
    /\ \A k \in Idx(handled) : handled[k].time >= duration <=> k = Len(handled)

\* C37: the horizon cut-off.  Every turn of the dispatch loop leaves the tick
\* history as long as the time of the event it has handled, the new entries
\* being the original id of the task whose job was running (task i of every
\* explored input has the original id i), or None; and fire returns: it has
\* then handled every event due before the horizon and exactly one event due
\* at the horizon or later, the last one, so that the events left in the queue
\* are all due at the horizon or later.
C37_HorizonCutOff ==
    [][/\ pc' # "panic"
       /\ (pc = "fire" /\ now < duration) =>
             /\ Len(running_history') = now'
             /\ \A t \in (now + 1)..now' : running_history'[t] = running_job
       /\ pc' = "done" =>
             /\ Len(running_history') = now'
             /\ CutOff(Handled(event_history'))
             /\ now' = event_history'[Len(event_history')].time
             /\ \A e \in DOMAIN event_queue' : e.time >= duration
      ]_vars

(***************************************************************************)
(* The agent's mutation inside the engine: activate is given the task list *)
(* of a simulator that has an agent attached, that is the application      *)
(* tasks with their encoded ids followed by the task init_event_queue has  *)
(* made for the agent.                                                      *)
(***************************************************************************)
\* simulator.tasks during fire, for the application tasks ts.
EngineTasks(ts) == init_event_queue(SimulatorNew(ts), PlaceboAgent).tasks

\* The application tasks of the engine's task list
\* (tasks.iter().take(number_of_tasks)).
ApplicationTasks(ts) == SubSeq(ts, 1, Len(ts) - 1)

EngineMutInit ==
    /\ an_tasks \in { EngineTasks(ts) : ts \in MutTaskSets }
    /\ an_task = None
    /\ an_mode = "LMode"
    /\ an_result = NoneOption
    /\ an_pc = "input"
    /\ an_cache = EmptyCache
    /\ an_approximate = TRUE
    /\ an_previous = NoneOption
    /\ SimIdle

\* SimulatorAgent::activate in the engine: the action is one over the
\* application tasks, the feasibility check is made on the whole task list.
AgActivateInEngine ==
    /\ an_pc = "input"
    /\ \E action \in Actions(ApplicationTasks(an_tasks)),
          cache \in {EmptyCache, (an_tasks[1].id :> 1)} :
          LET r == activate(an_tasks, action, cache)
          IN /\ an_tasks' = r.tasks
             /\ an_result' = [action |-> action, rejected |-> r.rejected]
             /\ an_cache' = cache
    /\ an_previous' = an_tasks
    /\ an_pc' = "activated"
    /\ UNCHANGED <<an_task, an_mode, an_approximate>>
    /\ UNCHANGED simvars

EngineMutNext == AgActivateInEngine

EngineMutSpec == EngineMutInit /\ [][EngineMutNext]_vars

\* The application tasks as the proposed action leaves them.
MutatedApplicationTasks ==
    ApplyAll(an_result.action, ApplicationTasks(an_previous))

\* C38: a mutation is reverted only when the online check fails.  After
\* activate has returned from a proposed mutation whose mutated application
\* tasks satisfy feasible_schedule_online, the mutation has not been rejected
\* and the budgets of the task list are the mutated ones.
C38_KeptWhenFeasible ==
    (/\ an_pc = "activated"
     /\ an_result.action[1].kind # "None"
     /\ feasible_schedule_online(MutatedApplicationTasks, an_cache).value)
        => /\ ~an_result.rejected
           /\ \A i \in DOMAIN MutatedApplicationTasks :
                 an_tasks[i].wcet_l = MutatedApplicationTasks[i].wcet_l

(***************************************************************************)
(* agent/mod.rs: the agent's bookkeeping.  The agent buffers the events it *)
(* is notified of and, at each activation, counts the events it has not    *)
(* processed yet.  The rewards 0.1, -1.0 and -2.0 are kept in tenths.      *)
(***************************************************************************)
BookCapacity == 2
MaxNotified == 4
MaxActivations == 3

\* SimulatorAgent::new with a replay memory of the capacity, tracking on or
\* switched off by skip_tracking; notified is the history of all the events
\* the agent was notified of.
SimulatorAgent_new(capacity, track) ==
    [attached |-> TRUE, activations |-> 0, notified |-> << >>,
     capacity |-> capacity, track |-> track,
     events_history |-> << >>, last_processed_event_index |-> 0,
     task_kills |-> 0, task_starts |-> 0,
     mode_changes_to_hmode |-> 0, mode_changes_to_lmode |-> 0,
     cumulative_reward |-> 0]

\* SimulatorAgent::push_event: the oldest event is evicted from a full buffer.
SimulatorAgent_push_event(a, event) ==
    LET kept == IF Len(a.events_history) > a.capacity - 1
                THEN Tail(a.events_history)
                ELSE a.events_history
    IN [a EXCEPT !.events_history = Append(kept, event),
                 !.notified = Append(@, event)]

\* SimulatorAgent::event_to_reward, in tenths.
event_to_reward(event) ==
    CASE event.type = "Start" -> 1
      [] event.type = "TaskKill" -> -10
      [] event.type = "ModeChange" /\ event.mode = "HMode" -> -20
      [] OTHER -> 0

IsTaskKill(e) == e.type = "TaskKill"
IsStart(e) == e.type = "Start"
IsToHMode(e) == e.type = "ModeChange" /\ e.mode = "HMode"
IsToLMode(e) == e.type = "ModeChange" /\ e.mode = "LMode"

\* The sum of the rewards of the events of seq.
Reward(seq) ==
    LET sum[k \in 0..Len(seq)] ==
            IF k = 0 THEN 0 ELSE sum[k - 1] + event_to_reward(seq[k])
    IN sum[Len(seq)]

\* events_history.iter().skip(n)
Skip(seq, n) == SubSeq(seq, n + 1, Len(seq))

\* The bookkeeping part of SimulatorAgent::activate: the events from
\* last_processed_event_index on are counted and rewarded, and the index is
\* moved to the end of the buffer.
track_events(a, unprocessed) ==
    [a EXCEPT
       !.task_kills = IF a.track THEN @ + Len(SelectSeq(unprocessed, IsTaskKill)) ELSE @,
       !.mode_changes_to_hmode =
            IF a.track THEN @ + Len(SelectSeq(unprocessed, IsToHMode)) ELSE @,
       !.mode_changes_to_lmode =
            IF a.track THEN @ + Len(SelectSeq(unprocessed, IsToLMode)) ELSE @,
       !.task_starts = IF a.track THEN @ + Len(SelectSeq(unprocessed, IsStart)) ELSE @,
       !.cumulative_reward = @ + Reward(unprocessed),
       !.last_processed_event_index = Len(a.events_history),
       !.activations = @ + 1]

\* The events the simulator may notify the agent of.
BookEvents ==
    { StartEvent(1, 0), EndEvent(1, 0, "JobCompletion"), TaskKillEvent(1, 0),
      ModeChangeEvent("HMode", 0), ModeChangeEvent("LMode", 0) }

BookInit ==
    /\ tasks = << >>
    /\ jobs = << >>
    /\ running_job = None
    /\ ready_jobs_queue = EmptyBag
    /\ event_queue = EmptyBag
    /\ event_history = << >>
    /\ last_context_switch = 0
    /\ now = 0
    /\ mode = "LMode"
    /\ running_history = << >>
    /\ random_execution_time = FALSE
    /\ duration = 0
    /\ pc = "none"
    /\ within_budget = TRUE
    /\ \E capacity \in 1..BookCapacity, track \in BOOLEAN :
          agent = SimulatorAgent_new(capacity, track)
    /\ agent_dispatches = 0
    /\ overflow_checks = FALSE
    /\ AnIdle

\* The simulator notifies the agent of an event (Simulator::push_event).
AgPushEvent ==
    /\ Len(agent.notified) < MaxNotified
    /\ \E event \in BookEvents : agent' = SimulatorAgent_push_event(agent, event)
    /\ UNCHANGED <<tasks, jobs, running_job, ready_jobs_queue, event_queue,
                   event_history, last_context_switch, now, mode, running_history,
                   random_execution_time, duration, pc, within_budget,
                   agent_dispatches, overflow_checks>>
    /\ UNCHANGED anvars

\* An activation of the agent, as far as its bookkeeping goes.
AgTrackEvents ==
    /\ agent.activations < MaxActivations
    /\ agent' = track_events(agent, Skip(agent.events_history,
                                         agent.last_processed_event_index))
    /\ UNCHANGED <<tasks, jobs, running_job, ready_jobs_queue, event_queue,
                   event_history, last_context_switch, now, mode, running_history,
                   random_execution_time, duration, pc, within_budget,
                   agent_dispatches, overflow_checks>>
    /\ UNCHANGED anvars

BookNext == AgPushEvent \/ AgTrackEvents

BookSpec == BookInit /\ [][BookNext]_vars

\* The totals are those of all the events seq.
Counted(a, seq) ==
    /\ a.track =>
          /\ a.task_kills = Len(SelectSeq(seq, IsTaskKill))
          /\ a.task_starts = Len(SelectSeq(seq, IsStart))
          /\ a.mode_changes_to_hmode = Len(SelectSeq(seq, IsToHMode))
          /\ a.mode_changes_to_lmode = Len(SelectSeq(seq, IsToLMode))
    /\ a.cumulative_reward = Reward(seq)

\* C39: the agent's bookkeeping.  The buffered event history never holds more
\* events than the capacity, and when an activation is over every event the
\* agent has been notified of so far has been counted exactly once: with
\* tracking on the totals of task kills, task starts and mode changes are the
\* numbers of such events among all the notified events, and the cumulative
\* reward is the sum of their rewards.
C39_Bookkeeping ==
    [][/\ Len(agent'.events_history) <= agent'.capacity
       /\ agent'.activations > agent.activations => Counted(agent', agent'.notified)
      ]_vars


====
